---- MODULE Spec2Model ----
(***************************************************************************)
(* State-machine model of the OpenDSU serverlessAPI core:                  *)
(*   - PluginManager (plugin loader + command dispatcher)                  *)
(*   - delayed responses (SlowResponse, ObservableResponse, CMB flavors),  *)
(*     their ResponseMixin and the ResponseCleanupRegistry                 *)
(*   - ProcessManager (fork / ready handshake)                             *)
(* Each subsystem has its own specification over the shared variables; a   *)
(* specification leaves the variables of the other subsystems unchanged.   *)
(***************************************************************************)
EXTENDS Integers, Sequences, FiniteSets, TLC

VARIABLES
    \* ---- PluginManager (plugin loader) ----
    fileState,      \* plugins directory: name -> "none" | "broken" | "ok"
    depsOf,         \* name -> list returned by the module's getDependencies()
    plugins,        \* the `plugins` registry: name -> 0 (absent) | instance generation
    loadOrder,      \* `loadOrder`
    initialized,    \* `initialized`
    isRestarting,   \* `isRestarting`
    initPc,         \* position of the running init(): "idle" | "deps" | "register" | "done" | "failed"
    sortedPlugins,  \* init()'s local `sortedPlugins`
    regIdx,         \* number of entries of sortedPlugins the registration loop has handled
    attempts,       \* names passed to registerPlugin() by the running init(), in call order
    initRuns,       \* number of init() runs started
    restartPc,      \* position of the running restart(): "idle" | "shutdown" | "init"
    shutdownCalls,  \* plugins whose shutdown() the last restart() called, in call order
    duplicates,     \* names for which registerPlugin threw 'already registered' in the running init()
    \* ---- PluginManager (command dispatcher) ----
    cmds,           \* executeCommand() invocations in flight: slot -> record
    lastDone,       \* the executeCommand() invocation that settled last, with its outcome
    \* ---- delayed response (one response object and the cleanup registry) ----
    resp,           \* the response object's fields, the registry entry of its callId, the
                    \* webhook PUTs in flight, and the record of PUTs and callback runs
    \* ---- ProcessManager (one forkProcess call and the processes registry) ----
    childProcess,   \* the forked child: [state: "none" | "running" | "exited", killed, signal]
    isReady,        \* forkProcess's local `isReady`
    readyTimeout,   \* forkProcess's 30 s timer: "none" | "armed" | "cleared" | "fired"
    processes,      \* `this.processes`: process id -> record (NoRecord when absent)
    forkPromise,    \* the promise returned to the caller: [state, value, reason, via]
    childEvents,    \* what the child did so far (IPC messages, 'error' events), in order
    persistentHandlers, \* number of _setupPersistentHandlers() calls on the child
    \* ---- ProcessManager (the supervisor: several workers, restart, terminateAll) ----
    sup,            \* [workers: the children forked so far, in fork order (the index is the
                    \*  child-process handle), processes: `this.processes`,
                    \*  restartingProcesses: `this.restartingProcesses`, restart: the
                    \*  restartProcess() call, terminate: the terminateAll() call]
    \* ---- ResponseCleanupRegistry (the process-wide singleton) ----
    registry,       \* [map: `cleanupCallbacks` (call id -> list, Absent when the key is not
                    \*  set), op / arg / before / ran: the last call made on the registry]
    \* ---- worker script (index.js: one forked worker and its parent's handlers) ----
    worker,         \* the worker process: module-level `server`, ServerlessAPI's locals,
                    \* process.shuttingDown, the IPC messages sent, the HTTP exchanges
    \* ---- CMBResponseMixin (one CMB response polling its external webhook) ----
    rst,            \* ProcessManager under overlapping restartProcess(id) calls on one id:
                    \* the children of the id, `this.processes.get(id)`,
                    \* `this.restartingProcesses.has(id)`, each call's position
    cmb             \* the mixin's closure: `pollingInterval`, `onExternalWebhookCallback`,
                    \* the interval callbacks started so far, and the owner's terminal state

loaderVars == <<fileState, depsOf, plugins, loadOrder, initialized, isRestarting,
                initPc, sortedPlugins, regIdx, attempts, initRuns, restartPc,
                shutdownCalls, duplicates>>

dispatchVars == <<cmds, lastDone>>

respVars == <<resp>>

forkVars == <<childProcess, isReady, readyTimeout, processes, forkPromise, childEvents,
              persistentHandlers>>

supVars == <<sup>>

registryVars == <<registry>>

workerVars == <<worker>>

cmbVars == <<cmb>>

rstVars == <<rst>>

vars == <<loaderVars, dispatchVars, respVars, forkVars, supVars, registryVars, workerVars, cmbVars, rstVars>>

\* What the steps of one subsystem leave unchanged
notLoader == <<dispatchVars, respVars, forkVars, supVars, registryVars, workerVars, cmbVars, rstVars>>
notDispatch == <<loaderVars, respVars, forkVars, supVars, registryVars, workerVars, cmbVars, rstVars>>
notResp == <<loaderVars, dispatchVars, forkVars, supVars, registryVars, workerVars, cmbVars, rstVars>>
notFork == <<loaderVars, dispatchVars, respVars, supVars, registryVars, workerVars, cmbVars, rstVars>>
notSup == <<loaderVars, dispatchVars, respVars, forkVars, registryVars, workerVars, cmbVars, rstVars>>
notRegistry == <<loaderVars, dispatchVars, respVars, forkVars, supVars, workerVars, cmbVars, rstVars>>
notWorker == <<loaderVars, dispatchVars, respVars, forkVars, supVars, registryVars, cmbVars, rstVars>>
notCmb == <<loaderVars, dispatchVars, respVars, forkVars, supVars, registryVars, workerVars, rstVars>>
notRst == <<loaderVars, dispatchVars, respVars, forkVars, supVars, registryVars, workerVars, cmbVars>>

----------------------------------------------------------------------------
(* Bounds *)

MaxDeps == 2        \* longest dependency list a plugin declares
MaxInitRuns == 3    \* init() runs per behaviour
MaxCmds == 1        \* executeCommand() invocations in flight at once
MaxCallbacks == 2   \* callbacks a plugin registers on one response (onError, cleanup, resource cleanup)
MaxCalls == 3       \* progress() / end() calls per response
MaxEvents == 3      \* IPC messages and 'error' events of one forked child
MaxWorkers == 2     \* children a ProcessManager forks per behaviour
MaxRegistered == 2  \* cleanup callbacks registered under one call id
MaxProbes == 2      \* tryNextPort() calls of one worker
MaxUncaught == 1    \* uncaught exceptions thrown by code running in the worker
MaxOverlap == 2     \* HTTP executeCommand requests a worker has in flight at once

----------------------------------------------------------------------------
(* Helpers *)

Range(s) == {s[i] : i \in 1..Len(s)}

IndexOf(s, x) == IF x \in Range(s) THEN CHOOSE i \in 1..Len(s) : s[i] = x /\ \A j \in 1..(i-1) : s[j] # x
                 ELSE 0

RECURSIVE FilterSeq(_, _)
FilterSeq(s, keep) ==
    IF s = <<>> THEN <<>>
    ELSE IF Head(s) \in keep THEN <<Head(s)>> \o FilterSeq(Tail(s), keep)
    ELSE FilterSeq(Tail(s), keep)

----------------------------------------------------------------------------
(* PluginManager: discovery, dependency graph, topological sort *)

Names == {"A", "B", "C"}

\* fs.readdirSync() order of the plugin files
FileOrder == <<"A", "B", "C">>

DepLists == {s \in UNION {[1..n -> Names] : n \in 0..MaxDeps} :
                \A i, j \in 1..Len(s) : i # j => s[i] # s[j]}

\* init(): the plugin files found in the directory
PluginFiles(fs) == {n \in Names : fs[n] # "none"}

\* init(): `pluginModules`, the files whose module loaded, in insertion order
PluginModules(fs) == FilterSeq(FileOrder, {n \in Names : fs[n] = "ok"})

\* buildDependencyGraph(): adjacency list keyed by the loaded modules
BuildDependencyGraph(fs, deps) ==
    [n \in Range(PluginModules(fs)) |-> deps[n]]

EmptyVisit == [visited |-> {}, temp |-> {}, order |-> <<>>, cycle |-> "" ]

RECURSIVE Visit(_, _, _)
RECURSIVE VisitAll(_, _, _)

\* topologicalSort(): the forEach over a node's dependencies (an exception ends it)
VisitAll(graph, ds, st) ==
    IF ds = <<>> \/ st.cycle # "" THEN st
    ELSE VisitAll(graph, Tail(ds), Visit(graph, Head(ds), st))

\* A sorter that emits the node before its dependencies
VisitFinishPreOrder(node, st) ==
    [st EXCEPT !.temp = @ \ {node}, !.visited = @ \cup {node}, !.order = <<node>> \o @]

\* A post-order step that leaves the node marked as being visited
VisitFinishKeepTemp(node, st) ==
    [st EXCEPT !.visited = @ \cup {node}, !.order = Append(@, node)]

\* topologicalSort(): the post-order step, after the dependencies were visited
VisitFinish(node, st) ==
    [st EXCEPT !.temp = @ \ {node}, !.visited = @ \cup {node}, !.order = Append(@, node)]

\* A visit that returns on a node being visited instead of throwing
VisitNoCycleCheck(graph, node, st) ==
    IF st.cycle # "" THEN st
    ELSE IF node \in st.temp \/ node \in st.visited THEN st
    ELSE LET st1 == [st EXCEPT !.temp = @ \cup {node}]
             ds  == IF node \in DOMAIN graph THEN graph[node] ELSE <<>>
             st2 == VisitAll(graph, ds, st1)
         IN  IF st2.cycle # "" THEN st2 ELSE VisitFinish(node, st2)

\* topologicalSort(): visit(node)
Visit(graph, node, st) ==
    IF st.cycle # "" THEN st
    ELSE IF node \in st.temp THEN [st EXCEPT !.cycle = node]
    ELSE IF node \in st.visited THEN st
    ELSE LET st1 == [st EXCEPT !.temp = @ \cup {node}]
             ds  == IF node \in DOMAIN graph THEN graph[node] ELSE <<>>
             st2 == VisitAll(graph, ds, st1)
         IN  IF st2.cycle # "" THEN st2 ELSE VisitFinish(node, st2)

\* topologicalSort(graph): visits Object.keys(graph) in insertion order;
\* .cycle is the node of the 'Circular dependency' error, "" when none is thrown
TopologicalSort(graph, keys) == VisitAll(graph, keys, EmptyVisit)

----------------------------------------------------------------------------
(* PluginManager.executeCommand(): values *)

\* JavaScript values are named by strings: "" is the empty string, "<...>" a
\* value that is not a string, anything else a non-empty string.
NonStrings == {"<undefined>", "<number>", "<null>", "<array>", "<object>"}
IsString(v) == v \notin NonStrings
Truthy(v) == v \notin {"", "<undefined>", "<null>", "false", "<zero>"}

CmdSlots == 1..MaxCmds

ValidCmd(p, m) == [kind |-> "<object>", forWhom |-> "user", name |-> m, pluginName |-> p, args |-> "<array>"]

\* The commands a client sends: well-formed ones for every plugin, and ones with a
\* single malformed part
Commands ==
    {ValidCmd(p, m) : p \in Names, m \in {"testMethod", "noSuchMethod"}}
    \cup {[ValidCmd("A", "testMethod") EXCEPT !.forWhom = b] : b \in {"", "<undefined>", "<number>"}}
    \cup {[ValidCmd("A", "testMethod") EXCEPT !.name = b] : b \in {"", "<undefined>", "<number>"}}
    \cup {[ValidCmd("A", "testMethod") EXCEPT !.pluginName = b] : b \in {"", "<undefined>", "<number>"}}
    \cup {[ValidCmd("A", "testMethod") EXCEPT !.args = b] : b \in {"<undefined>", "<object>"}}
    \cup {[ValidCmd("A", "testMethod") EXCEPT !.kind = b] : b \in {"<null>", "<number>"}}

\* What the plugin's allow predicate returns or resolves to ("<throws>": it
\* throws or rejects)
AllowValues == {"false", "true", "<undefined>", "<zero>", "<throws>"}

\* What the plugin method returns or resolves to
MethodValues == {"<undefined>", "<null>", "SlowResponse", "ObservableResponse",
                 "CMBSlowResponse", "CMBObservableResponse", "value", "false", "<zero>",
                 "<object>", "<throws>"}

\* Methods a plugin instance implements
HasMethod(m) == m = "testMethod"

FreeSlot == [pc |-> "free"]

NoOutcome == [pc |-> "none"]

DispatchIdle ==
    /\ cmds = [c \in CmdSlots |-> FreeSlot]
    /\ lastDone = NoOutcome

\* createResponseObject(result)
CreateResponseObject(r) ==
    IF r = "<undefined>" THEN [operationType |-> "sync", result |-> "<undefined>"]
    ELSE IF r = "SlowResponse" THEN [operationType |-> "slowLambda", result |-> "callId"]
    ELSE IF r = "ObservableResponse" THEN [operationType |-> "observableLambda", result |-> "callId"]
    ELSE IF r = "CMBSlowResponse" THEN [operationType |-> "cmbSlowLambda", result |-> "callId"]
    ELSE IF r = "CMBObservableResponse" THEN [operationType |-> "cmbObservableLambda", result |-> "callId"]
    ELSE [operationType |-> "sync", result |-> r]

\* executeCommand(): the validation of the command; "" when it passes
ValidationError(cmd) ==
    IF cmd.kind = "<null>" THEN "TypeError"
    ELSE IF cmd.kind # "<object>" THEN "InvalidCommand"
    ELSE IF ~Truthy(cmd.name) \/ ~IsString(cmd.name) THEN "InvalidCommand"
    ELSE IF ~Truthy(cmd.pluginName) \/ ~IsString(cmd.pluginName) THEN "InvalidCommand"
    ELSE IF cmd.args # "<array>" THEN "InvalidCommand"
    ELSE ""

\* A check that lets a false verdict through: canExecute === undefined
AllowDeniesUndefined(canExecute) == canExecute = "<undefined>"

\* executeCommand(): canExecute === false
AllowDenies(canExecute) == canExecute = "false"

\* executeCommand() settles: `methodResult` is what the plugin method returned
\* ("<none>" when it was not called or threw)
SettledAfter(c, cmd, inst, allowResult, invoked, methodResult, outcome, detail) ==
    /\ cmds' = [cmds EXCEPT ![c] = FreeSlot]
    /\ lastDone' = [pc |-> "settled", cmd |-> cmd, inst |-> inst, allowResult |-> allowResult,
                    invoked |-> invoked, methodResult |-> methodResult,
                    outcome |-> outcome, detail |-> detail]

Settled(c, cmd, inst, allowResult, invoked, outcome, detail) ==
    SettledAfter(c, cmd, inst, allowResult, invoked, "<none>", outcome, detail)

\* A dispatcher that never short-circuits
RestartGuardOff(restarting) == FALSE

\* executeCommand(): `if (isRestarting)`
RestartGuard(restarting) == restarting

\* executeCommand(): what it returns while the manager restarts
RestartReply == [operationType |-> "restart", result |-> "<undefined>"]

\* executeCommand(command) up to its first suspension: the restart short-circuit,
\* validation, plugin lookup, the allow check, and the call of plugin.allow
ExecBegin(c, cmd, allowIsFunction) ==
    /\ cmds[c].pc = "free"
    /\ \A d \in CmdSlots : d < c => cmds[d].pc # "free"
    /\ IF RestartGuard(isRestarting)
       THEN Settled(c, cmd, 0, "<none>", FALSE, "returned", RestartReply)
       ELSE IF ValidationError(cmd) # ""
       THEN Settled(c, cmd, 0, "<none>", FALSE, "threw", ValidationError(cmd))
       ELSE IF plugins[cmd.pluginName] = 0
       THEN Settled(c, cmd, 0, "<none>", FALSE, "threw", "NoPlugin")
       ELSE IF ~allowIsFunction
       THEN Settled(c, cmd, plugins[cmd.pluginName], "<none>", FALSE, "threw", "NoAllow")
       ELSE /\ cmds' = [cmds EXCEPT ![c] = [pc |-> "allow", cmd |-> cmd,
                                            inst |-> plugins[cmd.pluginName],
                                            allowResult |-> "<none>"]]
            /\ UNCHANGED lastDone
    /\ UNCHANGED notDispatch

\* executeCommand() resumed with the verdict of plugin.allow: the strict-false
\* check, the method check, and the call of the plugin method
ExecAllowed(c, canExecute) ==
    /\ cmds[c].pc = "allow"
    /\ LET r == cmds[c]
       IN  IF canExecute = "<throws>"
           THEN Settled(c, r.cmd, r.inst, canExecute, FALSE, "threw", "AllowThrew")
           ELSE IF AllowDenies(canExecute)
           THEN Settled(c, r.cmd, r.inst, canExecute, FALSE, "threw", "NotAllowed")
           ELSE IF ~HasMethod(r.cmd.name)
           THEN Settled(c, r.cmd, r.inst, canExecute, FALSE, "threw", "NoMethod")
           ELSE /\ cmds' = [cmds EXCEPT ![c] = [r EXCEPT !.pc = "method", !.allowResult = canExecute]]
                /\ UNCHANGED lastDone
    /\ UNCHANGED notDispatch

\* executeCommand() resumed with the method's result: createResponseObject
ExecReturn(c, res) ==
    /\ cmds[c].pc = "method"
    /\ LET r == cmds[c]
       IN  IF res = "<throws>"
           THEN Settled(c, r.cmd, r.inst, r.allowResult, TRUE, "threw", "MethodThrew")
           ELSE IF res = "<null>"
           THEN SettledAfter(c, r.cmd, r.inst, r.allowResult, TRUE, res, "threw", "TypeError")
           ELSE SettledAfter(c, r.cmd, r.inst, r.allowResult, TRUE, res, "returned",
                             CreateResponseObject(res))
    /\ UNCHANGED notDispatch

----------------------------------------------------------------------------
(* PluginManager.init() *)

LoaderInit ==
    /\ fileState \in [Names -> {"none", "broken", "ok"}]
    /\ depsOf \in [Names -> DepLists]
    /\ \A n \in Names : fileState[n] # "ok" => depsOf[n] = <<>>
    /\ plugins = [n \in Names |-> 0]
    /\ loadOrder = <<>>
    /\ initialized = FALSE
    /\ isRestarting = FALSE
    /\ initPc = "idle"
    /\ sortedPlugins = <<>>
    /\ regIdx = 0
    /\ attempts = <<>>
    /\ initRuns = 0
    /\ restartPc = "idle"
    /\ shutdownCalls = <<>>
    /\ duplicates = {}

\* init(): what a call sets before its first suspension
InitStarted ==
    /\ initRuns' = initRuns + 1
    /\ initialized' = FALSE
    /\ loadOrder' = <<>>
    /\ attempts' = <<>>
    /\ sortedPlugins' = <<>>
    /\ regIdx' = 0
    /\ initPc' = IF PluginFiles(fileState) = {} THEN "done" ELSE "deps"
    /\ duplicates' = {}

\* init() up to the first suspension: reset, discovery, module loading, and
\* the call of buildDependencyGraph (which awaits the getDependencies() calls)
InitBegin ==
    /\ initPc \in {"idle", "done", "failed"}
    /\ restartPc = "idle"
    /\ initRuns < MaxInitRuns
    /\ InitStarted
    /\ UNCHANGED <<fileState, depsOf, plugins, isRestarting, restartPc, shutdownCalls>>
    /\ UNCHANGED notLoader

\* init() resumed with the dependency graph: topologicalSort, which throws on a cycle
InitSort ==
    /\ initPc = "deps"
    /\ LET graph == BuildDependencyGraph(fileState, depsOf)
           res   == TopologicalSort(graph, PluginModules(fileState))
       IN  IF res.cycle # ""
           THEN /\ initPc' = "failed"
                /\ UNCHANGED sortedPlugins
           ELSE /\ initPc' = "register"
                /\ sortedPlugins' = res.order
    /\ UNCHANGED <<fileState, depsOf, plugins, loadOrder, initialized, isRestarting,
                   regIdx, attempts, initRuns, restartPc, shutdownCalls, duplicates>>
    /\ UNCHANGED notLoader

\* One turn of init()'s registration loop: registerPlugin(pluginName, pluginFile)
\* when the file exists. `instanceOk` is whether getInstance()/getAllow() yield an
\* instance; every error of registerPlugin is caught and logged by the loop.
InitRegister(instanceOk) ==
    /\ initPc = "register"
    /\ regIdx < Len(sortedPlugins)
    /\ LET name == sortedPlugins[regIdx + 1]
       IN  /\ regIdx' = regIdx + 1
           /\ IF fileState[name] = "none"
              THEN UNCHANGED <<attempts, plugins, loadOrder, duplicates>>
              ELSE /\ attempts' = Append(attempts, name)
                   /\ IF fileState[name] = "ok" /\ instanceOk /\ plugins[name] = 0
                      THEN /\ plugins' = [plugins EXCEPT ![name] = initRuns]
                           /\ loadOrder' = Append(loadOrder, name)
                           /\ UNCHANGED duplicates
                      ELSE /\ duplicates' = IF fileState[name] = "ok" /\ instanceOk
                                            THEN duplicates \cup {name} ELSE duplicates
                           /\ UNCHANGED <<plugins, loadOrder>>
    /\ UNCHANGED <<fileState, depsOf, initialized, isRestarting, initPc, sortedPlugins, initRuns,
                   restartPc, shutdownCalls>>
    /\ UNCHANGED notLoader

\* init() after the loop: initialized = true
InitEnd ==
    /\ initPc = "register"
    /\ regIdx = Len(sortedPlugins)
    /\ initPc' = "done"
    /\ initialized' = TRUE
    /\ UNCHANGED <<fileState, depsOf, plugins, loadOrder, isRestarting, sortedPlugins,
                   regIdx, attempts, initRuns, restartPc, shutdownCalls, duplicates>>
    /\ UNCHANGED notLoader

LoaderNext ==
    \/ InitBegin
    \/ InitSort
    \/ \E ok \in BOOLEAN : InitRegister(ok)
    \/ InitEnd

\* Plugins whose instance has a shutdown() method
DefinesShutdown(n) == n \in {"A", "B"}

\* restart(): the shutdown loop over loadOrder from entry `from` + 1 up to its next
\* suspension, `calls` being the shutdown() calls made so far. It suspends in the
\* first `await plugin.shutdown()`; when no entry is left it clears the registry and
\* the load order and calls init(), which suspends in buildDependencyGraph. An
\* entry without an instance makes `plugin.shutdown` throw out of restart().
ShutdownLoop(from, calls) ==
    LET stops == {i \in (from + 1)..Len(loadOrder) :
                     plugins[loadOrder[i]] = 0 \/ DefinesShutdown(loadOrder[i])}
    IN  IF stops = {}
        THEN /\ restartPc' = "init"
             /\ shutdownCalls' = calls
             /\ plugins' = [n \in Names |-> 0]
             /\ InitStarted
        ELSE LET i == CHOOSE k \in stops : \A m \in stops : k <= m
             IN  /\ IF plugins[loadOrder[i]] = 0
                    THEN restartPc' = "idle" /\ shutdownCalls' = calls
                    ELSE restartPc' = "shutdown" /\ shutdownCalls' = Append(calls, loadOrder[i])
                 /\ UNCHANGED <<plugins, loadOrder, initialized, initPc, sortedPlugins, regIdx,
                                attempts, initRuns, duplicates>>

\* restart(envVars) up to its first suspension: isRestarting = true, then the
\* shutdown loop
RestartBegin ==
    /\ restartPc = "idle"
    /\ initPc \in {"idle", "done", "failed"}
    /\ initRuns < MaxInitRuns
    /\ isRestarting' = TRUE
    /\ ShutdownLoop(0, <<>>)
    /\ UNCHANGED <<fileState, depsOf>>
    /\ UNCHANGED notLoader

\* restart() resumed after an awaited shutdown(), which returned or threw (the
\* error is caught and logged): the loop goes on with the next plugin
RestartReinit(threw) ==
    /\ restartPc = "shutdown"
    /\ ShutdownLoop(IndexOf(loadOrder, shutdownCalls[Len(shutdownCalls)]), shutdownCalls)
    /\ UNCHANGED <<fileState, depsOf, isRestarting>>
    /\ UNCHANGED notLoader

\* restart() resumed when its init() settled: isRestarting = false after an init()
\* that returned; an init() that threw makes restart() reject with the flag still set
RestartEnd ==
    /\ restartPc = "init"
    /\ initPc \in {"done", "failed"}
    /\ restartPc' = "idle"
    /\ isRestarting' = IF initPc = "done" THEN FALSE ELSE isRestarting
    /\ UNCHANGED <<fileState, depsOf, plugins, loadOrder, initialized, initPc, sortedPlugins,
                   regIdx, attempts, initRuns, shutdownCalls, duplicates>>
    /\ UNCHANGED notLoader

\* The steps of restart(), with the steps of the init() it runs
RestartNext ==
    \/ RestartBegin
    \/ \E threw \in BOOLEAN : RestartReinit(threw)
    \/ InitSort
    \/ \E ok \in BOOLEAN : InitRegister(ok)
    \/ InitEnd
    \/ RestartEnd

\* The commands sent to a manager that restarts: one of each kind of outcome a
\* manager at rest gives (method called, no such method, no such plugin, invalid
\* command, not an object)
RestartCommands ==
    {ValidCmd("A", "testMethod"), ValidCmd("B", "noSuchMethod"), ValidCmd("C", "testMethod"),
     [ValidCmd("A", "testMethod") EXCEPT !.name = ""],
     [ValidCmd("A", "testMethod") EXCEPT !.args = "<undefined>"],
     [ValidCmd("A", "testMethod") EXCEPT !.kind = "<null>"]}

\* executeCommand() invocations, one at a time, on a manager that restarts
RestartDispatchNext ==
    \/ \E cmd \in RestartCommands, f \in BOOLEAN : ExecBegin(1, cmd, f)
    \/ \E v \in AllowValues : ExecAllowed(1, v)
    \/ \E r \in MethodValues : ExecReturn(1, r)

\* The HTTP handler of PUT <urlPrefix>/executeCommand: every request calls
\* pluginManager.executeCommand(command) as it arrives and awaits the result;
\* requests that arrive meanwhile run the same handler
OverlapSlots == 1..MaxOverlap

OverlapCommands == {ValidCmd("A", "testMethod"), ValidCmd("B", "testMethod")}

OverlapIdle ==
    /\ cmds = [c \in OverlapSlots |-> FreeSlot]
    /\ lastDone = NoOutcome

HandlerNext ==
    \/ \E c \in OverlapSlots, cmd \in OverlapCommands, f \in BOOLEAN : ExecBegin(c, cmd, f)
    \/ \E c \in OverlapSlots, v \in AllowValues : ExecAllowed(c, v)
    \/ \E c \in OverlapSlots, r \in MethodValues : ExecReturn(c, r)

DispatchNext ==
    \/ \E c \in CmdSlots, cmd \in Commands, f \in BOOLEAN : ExecBegin(c, cmd, f)
    \/ \E c \in CmdSlots, v \in AllowValues : ExecAllowed(c, v)
    \/ \E c \in CmdSlots, r \in MethodValues : ExecReturn(c, r)

\* The loader after init() completed on a plugins directory with A, B (depending
\* on A) and a module C that fails to load
LoadedAB ==
    /\ fileState = [n \in Names |-> IF n = "C" THEN "broken" ELSE "ok"]
    /\ depsOf = [n \in Names |-> IF n = "B" THEN <<"A">> ELSE <<>>]
    /\ plugins = [n \in Names |-> IF n = "C" THEN 0 ELSE 1]
    /\ loadOrder = <<"A", "B">>
    /\ initialized = TRUE
    /\ isRestarting = FALSE
    /\ initPc = "done"
    /\ sortedPlugins = <<"A", "B">>
    /\ regIdx = 2
    /\ attempts = <<"A", "B">>
    /\ initRuns = 1
    /\ restartPc = "idle"
    /\ shutdownCalls = <<>>
    /\ duplicates = {}

----------------------------------------------------------------------------
(* Delayed responses: ResponseMixin, SlowResponse / CMBSlowResponse,         *)
(* ObservableResponse / CMBObservableResponse, ResponseCleanupRegistry       *)

Flavors == {"SlowResponse", "CMBSlowResponse", "ObservableResponse", "CMBObservableResponse"}

\* The flavors that keep their own isCompleted flag and resource-cleanup list
IsSlow(flavor) == flavor \in {"SlowResponse", "CMBSlowResponse"}

\* What a registered callback does when it runs: nothing, or a call of the
\* response's progress() / end() from inside the callback
CallbackKinds == {"noop", "progress", "end"}

\* The payload of the n-th progress() / end() call of a response: payloads are
\* opaque to the engine, every call passes its own
Payload(W) == Len(W.calls) + 1

CallId == "callId"

\* The response right after its constructor: ResponseMixin(this); this.init()
\* (expiry timer started, registry callback registered); the slow flavors also add
\* their own cleanup callback ("own").
NewResponse(flavor) ==
    [slow |-> IsSlow(flavor),               \* the flavors differ in this only
     callId |-> CallId,
     sCompleted |-> FALSE,                  \* the flavor's `isCompleted`
     mCompleted |-> FALSE,                  \* the mixin's `isCompleted`
     timer |-> "pending",                   \* `expiryTimer`: "null" | "pending" | "stale" (fired)
     errorCallbacks |-> <<>>,
     cleanupCallbacks |-> IF IsSlow(flavor) THEN <<"own">> ELSE <<>>,
     resourceCleanupCallbacks |-> <<>>,
     registry |-> <<"handleExpiry">>,       \* registry entry of callId; <<>> when absent
     inflight |-> {},                       \* PUTs awaiting the webhook's answer
     \* ---- record of what happened ----
     puts |-> <<>>,                         \* the PUTs issued, in order
     log |-> <<>>,                          \* the callback runs, in order
     calls |-> <<>>,                        \* the progress() / end() calls, in order
     failures |-> {},                       \* the PUTs that failed
     nErr |-> 0, nClean |-> 0, nRes |-> 0,  \* callbacks registered by the plugin
     terminalBy |-> "none",                 \* "end" | "error" | "expiry"
     endSettled |-> "none"]                 \* answer to the PUT of the completing end(): "ok" | "failed"

RespIdle == resp = NewResponse("SlowResponse")

Completed(W) == W.mCompleted \/ W.sCompleted

EndCalled(W) == \E i \in 1..Len(W.calls) : W.calls[i].op = "end"

\* _startExpiryTimer()
StartExpiryTimer(W) == [W EXCEPT !.timer = "pending"]

\* _resetExpiryTimer()
ResetExpiryTimer(W) == IF ~W.mCompleted THEN StartExpiryTimer(W) ELSE W

\* _setCompleted(true)
SetCompleted(W) == [W EXCEPT !.mCompleted = TRUE, !.timer = "null"]

\* _markCompleted()
MarkCompleted(W) == SetCompleted(W)

\* sendDataToWebhook(endpoint, data): reset the timer, then fetch(endpoint, PUT)
SendDataToWebhook(W, op, endpoint, data, late) ==
    LET W1 == ResetExpiryTimer(W)
        n  == Len(W1.puts) + 1
    IN  [W1 EXCEPT !.puts = Append(@, [endpoint |-> endpoint,
                                       body |-> [callId |-> W.callId] @@ data,
                                       late |-> late, call |-> Len(W.calls)]),
                   !.inflight = @ \cup {[op |-> op, n |-> n, late |-> late]}]

NoteCall(W, op, arg) ==
    [W EXCEPT !.calls = Append(@, [op |-> op, arg |-> arg, late |-> Completed(W),
                                   afterEnd |-> EndCalled(W)])]

\* progress(progressData)
Progress(W, d) ==
    LET W0 == NoteCall(W, "progress", d)
        data == [status |-> "pending", progress |-> d]
    IN  IF W.slow /\ W.sCompleted THEN W0
        ELSE SendDataToWebhook(W0, "progress", "/progress", data, Completed(W))

\* SlowResponse.end without the early return on isCompleted
SlowEndUnguarded(W, r) ==
    LET W0 == NoteCall(W, "end", r)
        data == [status |-> "completed", result |-> r]
        W1 == MarkCompleted([W0 EXCEPT !.sCompleted = TRUE,
                                       !.terminalBy = IF @ = "none" THEN "end" ELSE @])
    IN  SendDataToWebhook(W1, "end", "/result", data, Completed(W))

\* SlowResponse.end(result) up to its await
SlowEnd(W, r) ==
    LET W0 == NoteCall(W, "end", r)
        data == [status |-> "completed", result |-> r]
    IN  IF W.sCompleted THEN W0
        ELSE LET W1 == MarkCompleted([W0 EXCEPT !.sCompleted = TRUE,
                                                !.terminalBy = IF @ = "none" THEN "end" ELSE @])
             IN  SendDataToWebhook(W1, "end", "/result", data, Completed(W))

\* ObservableResponse.end() up to its await
ObservableEnd(W) ==
    SendDataToWebhook(NoteCall(W, "end", "<none>"), "end", "/result",
                      [status |-> "completed"], Completed(W))

\* end(result)
End(W, r) == IF W.slow THEN SlowEnd(W, r) ELSE ObservableEnd(W)

\* The body of a registered callback
RunCallback(W, kind) ==
    IF kind = "progress" THEN Progress(W, Payload(W))
    ELSE IF kind = "end" THEN End(W, Payload(W))
    ELSE W

Logged(W, kind, idx, code, late) ==
    [W EXCEPT !.log = Append(@, [kind |-> kind, idx |-> idx, code |-> code,
                                 callId |-> W.callId, late |-> late,
                                 afterEnd |-> EndCalled(W)])]

\* The element of a singleton set. The forEach loops below bind the response
\* reached so far as V \in {W}, so that each callback works on that one value.
The(S) == CHOOSE x \in S : TRUE

RECURSIVE RunResourceCleanup(_, _, _, _)
\* _cleanup(): resourceCleanupCallbacks.forEach(callback => callback())
RunResourceCleanup(W, cbs, idx, late) ==
    IF cbs = <<>> THEN W
    ELSE The({RunResourceCleanup(RunCallback(Logged(V, "resource", idx, "", late), Head(cbs)),
                                 Tail(cbs), idx + 1, late) : V \in {W}})

\* _cleanup()
Cleanup(W, late) ==
    [RunResourceCleanup(W, W.resourceCleanupCallbacks, 1, late)
        EXCEPT !.resourceCleanupCallbacks = <<>>]

\* _removeFromCleanupRegistry(): ResponseCleanupRegistry.removeCleanupCallbacks(callId)
RemoveFromCleanupRegistry(W) == [W EXCEPT !.registry = <<>>]

RECURSIVE RunErrorCallbacks(_, _, _, _, _)
\* errorCallbacks.forEach(callback => callback(error))
RunErrorCallbacks(W, cbs, idx, code, late) ==
    IF cbs = <<>> THEN W
    ELSE The({RunErrorCallbacks(RunCallback(Logged(V, "error", idx, code, late), Head(cbs)),
                                Tail(cbs), idx + 1, code, late) : V \in {W}})

\* _triggerError(error)
TriggerError(W, code, late) == RunErrorCallbacks(W, W.errorCallbacks, 1, code, late)

\* SlowResponse._handleError(error)
HandleError(W, code, late) ==
    IF ~W.sCompleted
    THEN LET W1 == MarkCompleted([W EXCEPT !.sCompleted = TRUE,
                                           !.terminalBy = IF @ = "none" THEN "error" ELSE @])
             W2 == TriggerError(W1, code, late)
             W3 == Cleanup(W2, late)
         IN  RemoveFromCleanupRegistry(W3)
    ELSE W

\* The cleanup callback the slow flavors add in their constructor
OwnCleanupCallback(W, late) ==
    IF ~W.sCompleted THEN Cleanup([W EXCEPT !.sCompleted = TRUE], late) ELSE W

RECURSIVE RunCleanupCallbacks(_, _, _, _)
\* _handleExpiry(): cleanupCallbacks.forEach(callback => callback())
RunCleanupCallbacks(W, cbs, idx, late) ==
    IF cbs = <<>> THEN W
    ELSE The({RunCleanupCallbacks(
                  IF Head(cbs) = "own" THEN OwnCleanupCallback(V, late)
                  ELSE RunCallback(Logged(V, "cleanup", idx, "", late), Head(cbs)),
                  Tail(cbs), idx + 1, late) : V \in {W}})

ExpiryCode == "EXPIRED"

\* An expiry that skips the error listeners
ExpiryListenersSkipped(W, late) == W

\* _handleExpiry(): errorCallbacks.forEach(callback => callback(expiryError))
ExpiryListeners(W, late) == RunErrorCallbacks(W, W.errorCallbacks, 1, ExpiryCode, late)

\* _handleExpiry()
HandleExpiry(W, late) ==
    IF W.mCompleted THEN W
    ELSE LET W1 == [W EXCEPT !.mCompleted = TRUE, !.timer = "null",
                             !.terminalBy = IF @ = "none" THEN "expiry" ELSE @]
             W2 == ExpiryListeners(W1, late)
             W3 == RunCleanupCallbacks(W2, W2.cleanupCallbacks, 1, late)
         IN  [W3 EXCEPT !.cleanupCallbacks = <<>>, !.errorCallbacks = <<>>]

----------------------------------------------------------------------------
(* Delayed responses: the operations *)

RespInit ==
    /\ resp \in {NewResponse(f) : f \in Flavors}

\* The callbacks the plugin registered on the response
Registered(W) == W.nErr + W.nClean + W.nRes

\* The plugin registers listeners on the response it created (before it is terminal)
OnError(kind) ==
    /\ ~Completed(resp)
    /\ Registered(resp) < MaxCallbacks
    /\ resp' = [resp EXCEPT !.errorCallbacks = Append(@, kind), !.nErr = @ + 1]
    /\ UNCHANGED notResp

AddCleanupCallback(kind) ==
    /\ ~Completed(resp)
    /\ Registered(resp) < MaxCallbacks
    /\ resp' = [resp EXCEPT !.cleanupCallbacks = Append(@, kind), !.nClean = @ + 1]
    /\ UNCHANGED notResp

AddResourceCleanupCallback(kind) ==
    /\ ~Completed(resp)
    /\ resp.slow
    /\ Registered(resp) < MaxCallbacks
    /\ resp' = [resp EXCEPT !.resourceCleanupCallbacks = Append(@, kind), !.nRes = @ + 1]
    /\ UNCHANGED notResp

\* A step takes place only if the calls it makes stay within MaxCalls
Within(W) == Len(W.calls) <= MaxCalls

\* The plugin calls progress(d)
CallProgress ==
    /\ Within(Progress(resp, Payload(resp)))
    /\ resp' = Progress(resp, Payload(resp))
    /\ UNCHANGED notResp

\* The plugin calls end(r)
CallEnd ==
    /\ Within(End(resp, Payload(resp)))
    /\ resp' = End(resp, Payload(resp))
    /\ UNCHANGED notResp

\* The expiry timer fires: if (!isCompleted) _handleExpiry()
TimerFire ==
    /\ resp.timer = "pending"
    /\ LET W1 == [resp EXCEPT !.timer = "stale"]
           W2 == IF ~W1.mCompleted THEN HandleExpiry(W1, Completed(resp)) ELSE W1
       IN  /\ Within(W2)
           /\ resp' = W2
    /\ UNCHANGED notResp

\* ResponseCleanupRegistry.executeCleanupCallbacks(callId): run the entry's
\* callbacks (each is () => target._handleExpiry()), then delete the entry
RegistryExecute ==
    /\ resp.registry # <<>>
    /\ LET W1 == HandleExpiry(resp, Completed(resp))
       IN  /\ Within(W1)
           /\ resp' = [W1 EXCEPT !.registry = <<>>]
    /\ UNCHANGED notResp

\* The webhook answers a PUT (ok: 2xx; otherwise a network error or non-OK status)
\* and the awaiting progress() / end() resumes
Settle(p, ok) ==
    /\ p \in resp.inflight
    /\ LET W0 == [resp EXCEPT !.inflight = @ \ {p},
                              !.failures = IF ok THEN @
                                           ELSE @ \cup {[op |-> p.op, n |-> p.n, late |-> p.late,
                                                           completedBefore |-> Completed(resp)]},
                              !.endSettled = IF p.op = "end" /\ ~p.late /\ @ = "none"
                                             THEN (IF ok THEN "ok" ELSE "failed") ELSE @]
           W1 == IF ~resp.slow THEN W0
                 ELSE IF p.op = "progress"
                 THEN (IF ok THEN W0 ELSE HandleError(W0, "UNKNOWN_ERROR", Completed(resp)))
                 ELSE (IF ok THEN RemoveFromCleanupRegistry(Cleanup(W0, p.late))
                       ELSE HandleError(W0, "UNKNOWN_ERROR", p.late))
       IN  /\ Within(W1)
           /\ resp' = W1
    /\ UNCHANGED notResp

RespNext ==
    \/ \E k \in CallbackKinds : OnError(k)
    \/ \E k \in CallbackKinds : AddCleanupCallback(k)
    \/ \E k \in CallbackKinds : AddResourceCleanupCallback(k)
    \/ CallProgress
    \/ CallEnd
    \/ TimerFire
    \/ RegistryExecute
    \/ \E p \in resp.inflight, ok \in BOOLEAN : Settle(p, ok)

----------------------------------------------------------------------------
(* ProcessManager: forkProcess / createServerlessAPI *)

ProcessIds == {"w1"}

\* The id of the worker being forked (config.id)
ProcessId == "w1"

NoRecord == [url |-> "<none>", port |-> "<none>"]

\* url / port pairs a worker may report
Endpoints == {[url |-> "http://127.0.0.1:p1", port |-> "p1"],
              [url |-> "http://127.0.0.1:p2", port |-> "p2"]}

\* IPC messages of the child: ready, error, and any other type
ChildMessages ==
    {[type |-> "ready", url |-> e.url, port |-> e.port] : e \in Endpoints}
        \cup {[type |-> t, url |-> "<undefined>", port |-> "<undefined>"] : t \in {"error", "other"}}

\* The 'error' event of the child process object (spawn or IPC failure)
ErrorEvent == [type |-> "error-event", url |-> "<undefined>", port |-> "<undefined>"]

\* config.storage values handed to createServerlessAPI
Storages == {"/storage", "<undefined>"}

\* The message types on which the handler registers more than on 'ready'
IsReadyMessageOrOther(m) == m.type \in {"ready", "other"}

\* message.type === 'ready'
IsReadyMessage(m) == m.type = "ready"

\* processInfo built from the ready message
ProcessInfo(m) == [url |-> m.url, port |-> m.port]

\* A reject that leaves the promise as it is
RejectNever(p, reason) == p

\* resolve(value) / reject(reason): a promise settles once
Resolve(p, value) == IF p.state = "pending" THEN [p EXCEPT !.state = "resolved", !.value = value] ELSE p
Reject(p, reason) == IF p.state = "pending" THEN [p EXCEPT !.state = "rejected", !.reason = reason] ELSE p

\* cleanupTimeout(): clearTimeout(readyTimeout)
CleanupTimeout(t) == IF t = "armed" THEN "cleared" ELSE t

\* if (childProcess && !childProcess.killed) childProcess.kill(): SIGTERM, the
\* default signal of kill() and the one the readiness timeout names
Kill(c) == IF c.killed THEN c ELSE [c EXCEPT !.killed = TRUE, !.signal = "SIGTERM"]

\* The persistent 'exit' / 'error' handlers: this.processes.delete(processId)
PersistentDelete(P) == IF persistentHandlers > 0 THEN [P EXCEPT ![ProcessId] = NoRecord] ELSE P

ForkIdle ==
    /\ childProcess = [state |-> "none", killed |-> FALSE, signal |-> "<none>"]
    /\ isReady = FALSE
    /\ readyTimeout = "none"
    /\ processes = [i \in ProcessIds |-> NoRecord]
    /\ forkPromise = [state |-> "none", value |-> NoRecord, reason |-> "<none>", via |-> "<none>"]
    /\ childEvents = <<>>
    /\ persistentHandlers = 0

\* forkProcess(scriptPath, config, envVars) up to the return of the promise
ForkProcess(via) ==
    /\ childProcess' = [state |-> "running", killed |-> FALSE, signal |-> "<none>"]
    /\ isReady' = FALSE
    /\ readyTimeout' = "armed"
    /\ forkPromise' = [state |-> "pending", value |-> NoRecord, reason |-> "<none>", via |-> via]
    /\ UNCHANGED <<processes, childEvents, persistentHandlers>>

\* A direct forkProcess() call
CallForkProcess ==
    /\ forkPromise.state = "none"
    /\ ForkProcess("forkProcess")
    /\ UNCHANGED notFork

\* createServerlessAPI(config): throws without config.storage, else awaits forkProcess
\* and returns the url and port of its record
CreateServerlessAPI(storage) ==
    /\ forkPromise.state = "none"
    /\ IF storage = "<undefined>"
       THEN /\ forkPromise' = [state |-> "rejected", value |-> NoRecord,
                               reason |-> "StorageUndefined", via |-> "createServerlessAPI"]
            /\ UNCHANGED <<childProcess, isReady, readyTimeout, processes, childEvents,
                           persistentHandlers>>
       ELSE ForkProcess("createServerlessAPI")
    /\ UNCHANGED notFork

\* childProcess.on('message', ...)
ChildMessage(m) ==
    /\ childProcess.state = "running"
    /\ Len(childEvents) < MaxEvents
    /\ childEvents' = Append(childEvents, m)
    /\ IF IsReadyMessage(m)
       THEN /\ readyTimeout' = CleanupTimeout(readyTimeout)
            /\ isReady' = TRUE
            /\ processes' = [processes EXCEPT ![ProcessId] = ProcessInfo(m)]
            /\ persistentHandlers' = persistentHandlers + 1
            /\ forkPromise' = Resolve(forkPromise, ProcessInfo(m))
            /\ UNCHANGED childProcess
       ELSE IF m.type = "error"
       THEN /\ readyTimeout' = CleanupTimeout(readyTimeout)
            /\ childProcess' = Kill(childProcess)
            /\ forkPromise' = Reject(forkPromise, "ChildReportedError")
            /\ UNCHANGED <<isReady, processes, persistentHandlers>>
       ELSE UNCHANGED <<childProcess, isReady, readyTimeout, processes, forkPromise,
                        persistentHandlers>>
    /\ UNCHANGED notFork

\* childProcess.on('error', ...), then the persistent 'error' handler
ChildError ==
    /\ childProcess.state = "running"
    /\ Len(childEvents) < MaxEvents
    /\ childEvents' = Append(childEvents, ErrorEvent)
    /\ readyTimeout' = CleanupTimeout(readyTimeout)
    /\ childProcess' = Kill(childProcess)
    /\ forkPromise' = Reject(forkPromise, "ChildError")
    /\ processes' = PersistentDelete(processes)
    /\ UNCHANGED <<isReady, persistentHandlers>>
    /\ UNCHANGED notFork

\* childProcess.on('exit', ...), then the persistent 'exit' handler
ChildExit ==
    /\ childProcess.state = "running"
    /\ childProcess' = [childProcess EXCEPT !.state = "exited"]
    /\ readyTimeout' = CleanupTimeout(readyTimeout)
    /\ forkPromise' = IF ~isReady THEN Reject(forkPromise, "ExitedPrematurely") ELSE forkPromise
    /\ processes' = PersistentDelete(processes)
    /\ UNCHANGED <<isReady, childEvents, persistentHandlers>>
    /\ UNCHANGED notFork

\* The 30 s readyTimeout fires
ReadyTimeoutFires ==
    /\ readyTimeout = "armed"
    /\ readyTimeout' = "fired"
    /\ childProcess' = IF ~isReady /\ ~childProcess.killed THEN Kill(childProcess)
                       ELSE childProcess
    /\ forkPromise' = Reject(forkPromise, "ReadyTimeout")
    /\ UNCHANGED <<isReady, processes, childEvents, persistentHandlers>>
    /\ UNCHANGED notFork

ForkNext ==
    \/ CallForkProcess
    \/ \E st \in Storages : CreateServerlessAPI(st)
    \/ \E m \in ChildMessages : ChildMessage(m)
    \/ ChildError
    \/ ChildExit
    \/ ReadyTimeoutFires

----------------------------------------------------------------------------
(* ProcessManager: the supervisor (workers, restartProcess, terminateAll) *)

\* Ids under which workers are forked (config.id, the urlPrefix of createServerlessAPI)
WorkerIds == {"w1", "w2"}

\* What a worker is forked with: createServerlessAPI(config) forks index.js and
\* returns an API object with close() and kill(); forkProcess(scriptPath, config)
\* is also called directly
ForkInputs ==
    {[via |-> "createServerlessAPI", config |-> "C1", scriptPath |-> "index.js"],
     [via |-> "forkProcess", config |-> "C2", scriptPath |-> "worker.js"]}

NoWorkerRecord == [process |-> 0, config |-> "<none>", scriptPath |-> "<none>"]

NoRestart == [pc |-> "none", id |-> "<none>", old |-> 0, config |-> "<none>",
              scriptPath |-> "<none>", timer |-> "none", new |-> 0]

NoTerminate == [pc |-> "none", targets |-> {}, pending |-> {}]

SupIdle ==
    sup = [workers |-> <<>>,
           processes |-> [i \in WorkerIds |-> NoWorkerRecord],
           restartingProcesses |-> {},
           restart |-> NoRestart,
           terminate |-> NoTerminate]

Handles(S) == 1..Len(S.workers)

\* forkProcess(): the child forked, with forkProcess's listeners and its 30 s timer;
\* `errorListeners`: the 'error' listeners of forkProcess and of
\* _setupPersistentHandlers are attached (until removeAllListeners('error'));
\* `persistent`: the persistent 'exit' handler is attached; `closing`: the 'exit'
\* listener of close() is attached
NewWorker(id, config, scriptPath, via) ==
    [id |-> id, config |-> config, scriptPath |-> scriptPath, via |-> via,
     state |-> "running", killed |-> FALSE, signal |-> "<none>",
     isReady |-> FALSE, readyTimeout |-> "armed", promise |-> "pending",
     errorListeners |-> TRUE, persistent |-> FALSE, closing |-> FALSE]

\* forkProcess(scriptPath, config, envVars) up to the return of the promise
ForkWorker(S, id, config, scriptPath, via) ==
    [S EXCEPT !.workers = Append(@, NewWorker(id, config, scriptPath, via))]

\* if (!child.killed) child.kill(sig): a child that exited takes no signal and
\* its `killed` stays false
Signal(w, sig) ==
    IF w.killed \/ w.state # "running" THEN w
    ELSE [w EXCEPT !.killed = TRUE, !.signal = sig]

\* this.processes.delete(processId)
DeleteRecord(S, id) == [S EXCEPT !.processes[id] = NoWorkerRecord]

\* getProcessInfo(processId); null is NoWorkerRecord
GetProcessInfo(S, id) ==
    IF id \in S.restartingProcesses /\ S.processes[id] # NoWorkerRecord
    THEN [process |-> S.processes[id].process, config |-> S.processes[id].config,
          scriptPath |-> S.processes[id].scriptPath, restarting |-> TRUE]
    ELSE S.processes[id]

\* resolve / reject of the forkProcess promise of child h. A restartProcess() that
\* awaits this promise resumes in the same turn: it removes the id from
\* restartingProcesses and returns the record or rethrows.
SettleFork(S, h, outcome) ==
    IF S.workers[h].promise # "pending" THEN S
    ELSE LET S1 == [S EXCEPT !.workers[h].promise = outcome]
         IN  IF S.restart.pc = "fork" /\ S.restart.new = h
             THEN [S1 EXCEPT !.restart.pc = outcome,
                             !.restartingProcesses = @ \ {S.restart.id}]
             ELSE S1

\* A restart that forks the new child with the first fork input instead of the
\* old record's config and scriptPath
RestartForkDefaults(S) ==
    LET S1 == DeleteRecord(S, S.restart.id)
        S2 == ForkWorker(S1, S.restart.id, "C1", "index.js", "restartProcess")
    IN  [S2 EXCEPT !.restart.pc = "fork", !.restart.new = Len(S2.workers),
                   !.restart.timer = IF @ = "armed" THEN "cleared" ELSE @]

\* restartProcess() resumed after shutdownPromise (or without it): clearTimeout in
\* the listener that resolved it, this.processes.delete(processId), and
\* forkProcess(scriptPath, config, envVars) with the old record's config and scriptPath
RestartFork(S) ==
    LET S1 == DeleteRecord(S, S.restart.id)
        S2 == ForkWorker(S1, S.restart.id, S.restart.config, S.restart.scriptPath,
                         "restartProcess")
    IN  [S2 EXCEPT !.restart.pc = "fork", !.restart.new = Len(S2.workers),
                   !.restart.timer = IF @ = "armed" THEN "cleared" ELSE @]

\* restartProcess() from "Stopping old process" to its next suspension. An old
\* child marked killed is not waited for. Otherwise the force-kill timer and the
\* once('exit') / once('error') listeners are set, the other 'error' listeners are
\* removed and `shutdown` is sent: a send to a child that already exited emits
\* 'error' on the next tick, which resolves shutdownPromise; `sendThrows`: send()
\* throws, and the child is sent SIGTERM.
RestartStop(S, sendThrows) ==
    LET old == S.restart.old
        w   == S.workers[old]
    IN  IF w.killed \/ w.state = "exited" THEN RestartFork(S)
        ELSE [S EXCEPT !.restart.pc = "wait",
                       !.restart.timer = "armed",
                       !.workers[old] =
                           IF sendThrows THEN Signal([w EXCEPT !.errorListeners = FALSE], "SIGTERM")
                           ELSE [w EXCEPT !.errorListeners = FALSE]]

\* A terminateAll() that resolves with the first worker's shutdown promise
TerminateResolvedAny(S, h) ==
    [S EXCEPT !.terminate.pc = "done", !.terminate.pending = {},
              !.processes = [i \in WorkerIds |-> NoWorkerRecord]]

\* terminateAll(): the shutdown promise of child h resolves; when it was the last
\* one, Promise.all resolves and this.processes.clear() runs
TerminateResolved(S, h) ==
    IF S.terminate.pending \ {h} = {}
    THEN [S EXCEPT !.terminate.pc = "done", !.terminate.pending = {},
                   !.processes = [i \in WorkerIds |-> NoWorkerRecord]]
    ELSE [S EXCEPT !.terminate.pending = @ \ {h}]

\* Children the model may still fork: a restartProcess() under way forks one
Capacity(S) ==
    Len(S.workers) + (IF S.restart.pc \in {"secrets", "wait"} THEN 1 ELSE 0) < MaxWorkers

\* createServerlessAPI(config) with config.env given, or forkProcess(scriptPath,
\* config) called directly: forks the child
CallFork(id, inp) ==
    /\ Capacity(sup)
    /\ sup' = ForkWorker(sup, id, inp.config, inp.scriptPath, inp.via)
    /\ UNCHANGED notSup

\* The child sends {type: 'ready'}: forkProcess's message handler
WorkerReady(h) ==
    /\ h \in Handles(sup)
    /\ sup.workers[h].state = "running"
    /\ ~sup.workers[h].isReady
    /\ LET w  == sup.workers[h]
           S1 == [sup EXCEPT !.workers[h].readyTimeout = CleanupTimeout(@),
                             !.workers[h].isReady = TRUE,
                             !.workers[h].persistent = TRUE,
                             !.processes[w.id] = [process |-> h, config |-> w.config,
                                                  scriptPath |-> w.scriptPath]]
       IN  sup' = SettleFork(S1, h, "resolved")
    /\ UNCHANGED notSup

\* The child sends {type: 'error'} (it does on every uncaught exception):
\* forkProcess's message handler kills it and rejects
WorkerErrorMessage(h) ==
    /\ h \in Handles(sup)
    /\ sup.workers[h].state = "running"
    /\ LET S1 == [sup EXCEPT !.workers[h] =
                        Signal([@ EXCEPT !.readyTimeout = CleanupTimeout(@)], "SIGTERM")]
       IN  sup' = SettleFork(S1, h, "rejected")
    /\ UNCHANGED notSup

\* The child process object emits 'error': forkProcess's listener and the
\* persistent one while they are attached, restartProcess's once('error') while it
\* waits for this child
WorkerErrorEvent(h) ==
    /\ h \in Handles(sup)
    /\ sup.workers[h].state = "running"
    /\ sup.workers[h].errorListeners \/ (sup.restart.pc = "wait" /\ sup.restart.old = h)
    /\ LET w  == sup.workers[h]
           S1 == IF w.errorListeners
                 THEN SettleFork([sup EXCEPT !.workers[h] =
                                      Signal([@ EXCEPT !.readyTimeout = CleanupTimeout(@)], "SIGTERM")],
                                 h, "rejected")
                 ELSE sup
           S2 == IF w.errorListeners /\ w.persistent THEN DeleteRecord(S1, w.id) ELSE S1
       IN  sup' = IF S2.restart.pc = "wait" /\ S2.restart.old = h THEN RestartFork(S2) ELSE S2
    /\ UNCHANGED notSup

\* The child exits: forkProcess's 'exit' listener, the persistent handler and
\* close()'s listener (both delete the record of the id), restartProcess's
\* once('exit'), terminateAll's once('exit')
WorkerExit(h) ==
    /\ h \in Handles(sup)
    /\ sup.workers[h].state = "running"
    /\ LET w  == sup.workers[h]
           S1 == [sup EXCEPT !.workers[h].state = "exited",
                             !.workers[h].readyTimeout = CleanupTimeout(@)]
           S2 == IF ~w.isReady THEN SettleFork(S1, h, "rejected") ELSE S1
           S3 == IF w.persistent \/ w.closing THEN DeleteRecord(S2, w.id) ELSE S2
           S4 == IF S3.restart.pc = "wait" /\ S3.restart.old = h THEN RestartFork(S3) ELSE S3
       IN  sup' = IF h \in S4.terminate.pending THEN TerminateResolved(S4, h) ELSE S4
    /\ UNCHANGED notSup

\* forkProcess's 30 s readiness timer fires
WorkerReadyTimeout(h) ==
    /\ h \in Handles(sup)
    /\ sup.workers[h].readyTimeout = "armed"
    /\ LET w  == sup.workers[h]
           w1 == IF ~w.isReady THEN Signal(w, "SIGTERM") ELSE w
           S1 == [sup EXCEPT !.workers[h] = [w1 EXCEPT !.readyTimeout = "fired"]]
       IN  sup' = SettleFork(S1, h, "rejected")
    /\ UNCHANGED notSup

\* restartProcess(processId, envVars) on a registered id, up to its first
\* suspension: `awaitsSecrets` when envVars is empty and config.storage is set
RestartProcess(id, awaitsSecrets, sendThrows) ==
    /\ sup.restart.pc \in {"none", "resolved", "rejected"}
    /\ sup.processes[id] # NoWorkerRecord
    /\ Capacity(sup)
    /\ LET rec == sup.processes[id]
           S1  == [sup EXCEPT !.restartingProcesses = @ \cup {id},
                              !.restart = [pc |-> "secrets", id |-> id, old |-> rec.process,
                                           config |-> rec.config, scriptPath |-> rec.scriptPath,
                                           timer |-> "none", new |-> 0]]
       IN  sup' = IF awaitsSecrets THEN S1 ELSE RestartStop(S1, sendThrows)
    /\ UNCHANGED notSup

\* restartProcess() resumed with the environment loaded from the secrets service
RestartResume(sendThrows) ==
    /\ sup.restart.pc = "secrets"
    /\ sup' = RestartStop(sup, sendThrows)
    /\ UNCHANGED notSup

\* restartProcess's 5 s forceKillTimeout fires: SIGKILL unless the child is marked killed
ForceKillTimeout ==
    /\ sup.restart.pc = "wait"
    /\ sup.restart.timer = "armed"
    /\ sup' = [sup EXCEPT !.restart.timer = "fired",
                          !.workers[sup.restart.old] = Signal(@, "SIGKILL")]
    /\ UNCHANGED notSup

\* kill() of the object createServerlessAPI returned: process.kill('SIGTERM'),
\* then this.processes.delete(id)
ApiKill(h) ==
    /\ h \in Handles(sup)
    /\ sup.workers[h].via = "createServerlessAPI"
    /\ sup.workers[h].promise = "resolved"
    /\ LET w  == sup.workers[h]
           w1 == IF w.state = "running"
                 THEN [w EXCEPT !.killed = TRUE,
                                !.signal = IF @ = "SIGKILL" THEN @ ELSE "SIGTERM"]
                 ELSE w
       IN  sup' = DeleteRecord([sup EXCEPT !.workers[h] = w1], w.id)
    /\ UNCHANGED notSup

\* close() of the object createServerlessAPI returned: sends `shutdown` and adds
\* an 'exit' listener that deletes the record of the id
ApiClose(h) ==
    /\ h \in Handles(sup)
    /\ sup.workers[h].via = "createServerlessAPI"
    /\ sup.workers[h].promise = "resolved"
    /\ sup.workers[h].state = "running"
    /\ ~sup.workers[h].closing
    /\ sup' = [sup EXCEPT !.workers[h].closing = TRUE]
    /\ UNCHANGED notSup

\* terminateAll() up to `await Promise.all`: a record whose child is marked killed
\* resolves at once, every other child is sent `shutdown` and gets a 5 s timer
TerminateAll ==
    /\ sup.terminate.pc = "none"
    /\ LET targets == {sup.processes[i].process : i \in {j \in WorkerIds : sup.processes[j] # NoWorkerRecord}}
           pending == {h \in targets : ~sup.workers[h].killed}
       IN  sup' = IF pending = {}
                  THEN [sup EXCEPT !.terminate = [pc |-> "done", targets |-> targets, pending |-> {}],
                                   !.processes = [i \in WorkerIds |-> NoWorkerRecord]]
                  ELSE [sup EXCEPT !.terminate = [pc |-> "wait", targets |-> targets,
                                                  pending |-> pending]]
    /\ UNCHANGED notSup

\* terminateAll's 5 s timer of child h fires: SIGTERM unless marked killed, resolve
TerminateTimeout(h) ==
    /\ sup.terminate.pc = "wait"
    /\ h \in sup.terminate.pending
    /\ sup' = TerminateResolved([sup EXCEPT !.workers[h] = Signal(@, "SIGTERM")], h)
    /\ UNCHANGED notSup

WorkerHandles == 1..MaxWorkers

\* What the children do
WorkerNext ==
    \/ \E h \in WorkerHandles : WorkerReady(h)
    \/ \E h \in WorkerHandles : WorkerErrorMessage(h)
    \/ \E h \in WorkerHandles : WorkerErrorEvent(h)
    \/ \E h \in WorkerHandles : WorkerExit(h)
    \/ \E h \in WorkerHandles : WorkerReadyTimeout(h)

\* One worker id: fork, restart, kill(), close()
SupervisorNext ==
    \/ \E inp \in ForkInputs : CallFork("w1", inp)
    \/ \E a, t \in BOOLEAN : RestartProcess("w1", a, t)
    \/ \E t \in BOOLEAN : RestartResume(t)
    \/ ForceKillTimeout
    \/ \E h \in WorkerHandles : ApiKill(h)
    \/ \E h \in WorkerHandles : ApiClose(h)
    \/ WorkerNext

\* Workers under several ids, and terminateAll()
TerminateNext ==
    \/ \E id \in WorkerIds : CallFork(id, [via |-> "createServerlessAPI", config |-> "C1",
                                           scriptPath |-> "index.js"])
    \/ TerminateAll
    \/ \E h \in WorkerHandles : TerminateTimeout(h)
    \/ WorkerNext

----------------------------------------------------------------------------
(* ProcessManager: overlapping restartProcess(id) calls on one worker id.    *)
(* The children report ready or exit; envVars is given, so no call waits for *)
(* the secrets service.                                                      *)

\* number of restartProcess(id) calls
MaxRestarts == 2

RestartCalls == 1..MaxRestarts

NoRestartCall == [pc |-> "none", old |-> 0, new |-> 0, timer |-> "none"]

\* a child right after forkProcess() forked it
ForkedChild == [state |-> "running", isReady |-> FALSE, killed |-> FALSE]

\* no call was made, no child exists, the registry is empty
RstIdle ==
    rst = [children |-> <<>>, processes |-> 0, restartingProcesses |-> FALSE,
           calls |-> [c \in RestartCalls |-> NoRestartCall]]

\* one worker is registered under the id: forked, ready, running
OneRegistered ==
    rst = [children |-> <<[ForkedChild EXCEPT !.isReady = TRUE]>>, processes |-> 1,
           restartingProcesses |-> FALSE,
           calls |-> [c \in RestartCalls |-> NoRestartCall]]

\* restartProcess() of call c from this.processes.delete(processId) to the await
\* of forkProcess()
DeleteAndFork(R, c) ==
    [R EXCEPT !.processes = 0,
              !.children = Append(@, ForkedChild),
              !.calls[c].pc = "fork",
              !.calls[c].new = Len(R.children) + 1,
              !.calls[c].timer = IF @ = "armed" THEN "cleared" ELSE @]

\* the calls whose shutdownPromise the 'exit' of child h resolves resume one
\* after the other, from call c on
RECURSIVE ResumeWaiting(_, _, _)
ResumeWaiting(R, h, c) ==
    IF c > MaxRestarts THEN R
    ELSE ResumeWaiting(IF R.calls[c].pc = "wait" /\ R.calls[c].old = h
                       THEN DeleteAndFork(R, c) ELSE R,
                       h, c + 1)

\* the forkProcess() promise of child h settles: the call that awaits it removes
\* the id from restartingProcesses and returns or rethrows
SettleRestart(R, h, outcome) ==
    LET awaiting == {c \in RestartCalls : R.calls[c].pc = "fork" /\ R.calls[c].new = h}
    IN  IF awaiting = {} THEN R
        ELSE [R EXCEPT !.restartingProcesses = FALSE,
                       !.calls = [c \in RestartCalls |->
                                     IF c \in awaiting THEN [@[c] EXCEPT !.pc = outcome]
                                     ELSE @[c]]]

\* restartProcess(processId, envVars) of call c up to its first suspension
OverlappingRestart(c) ==
    /\ rst.calls[c].pc = "none"
    /\ rst' = IF rst.processes = 0
              THEN [rst EXCEPT !.calls[c].pc = "rejected"]
              ELSE LET R == [rst EXCEPT !.restartingProcesses = TRUE,
                                        !.calls[c].old = rst.processes]
                   IN  IF rst.children[rst.processes].killed
                       THEN DeleteAndFork(R, c)
                       ELSE [R EXCEPT !.calls[c].pc = "wait", !.calls[c].timer = "armed"]
    /\ UNCHANGED notRst

\* the 5 s forceKillTimeout of call c fires
OverlappingForceKill(c) ==
    /\ rst.calls[c].pc = "wait"
    /\ rst.calls[c].timer = "armed"
    /\ rst' = [rst EXCEPT !.calls[c].timer = "fired",
                          !.children[rst.calls[c].old].killed = TRUE]
    /\ UNCHANGED notRst

\* child h sends {type: 'ready'}: forkProcess's message handler
RestartedReady(h) ==
    /\ h \in DOMAIN rst.children
    /\ rst.children[h].state = "running"
    /\ ~rst.children[h].isReady
    /\ rst' = SettleRestart([rst EXCEPT !.children[h].isReady = TRUE, !.processes = h],
                            h, "resolved")
    /\ UNCHANGED notRst

\* child h exits: forkProcess's 'exit' listener, the persistent handler of a
\* child that was ready, and the once('exit') of every call that waits for it
RestartedExit(h) ==
    /\ h \in DOMAIN rst.children
    /\ rst.children[h].state = "running"
    /\ LET w  == rst.children[h]
           R1 == [rst EXCEPT !.children[h].state = "exited"]
           R2 == IF ~w.isReady THEN SettleRestart(R1, h, "rejected") ELSE R1
           R3 == IF w.isReady THEN [R2 EXCEPT !.processes = 0] ELSE R2
       IN  rst' = ResumeWaiting(R3, h, 1)
    /\ UNCHANGED notRst

ConcurrentRestartNext ==
    \/ \E c \in RestartCalls : OverlappingRestart(c)
    \/ \E c \in RestartCalls : OverlappingForceKill(c)
    \/ \E h \in 1..(MaxRestarts + 1) : RestartedReady(h)
    \/ \E h \in 1..(MaxRestarts + 1) : RestartedExit(h)

----------------------------------------------------------------------------
(* ResponseCleanupRegistry: the process-wide map from call id to the list    *)
(* of cleanup callbacks registered for it                                    *)

RegistryIds == {"id1", "id2"}

\* What a registered callback does when the registry runs it: return, throw,
\* or end its own response from inside the callback, which calls
\* removeCleanupCallbacks(callId) while the registry is still iterating
RegistryCallbacks == {"returns", "throws", "removes"}

\* cleanupCallbacks.has(callId) is false
NoCallbacks == [has |-> FALSE, list |-> <<>>]

RegistryIdle ==
    registry = [map |-> [c \in RegistryIds |-> NoCallbacks],
                op |-> "none", arg |-> "none",
                before |-> [c \in RegistryIds |-> NoCallbacks],
                ran |-> <<>>]

\* The same loop without its try / catch: the first throw ends it
ForEachUncaught(callId, callbacks, i, R) ==
    LET stop == {k \in i..Len(callbacks) : callbacks[k] = "throws"}
        last == IF stop = {} THEN Len(callbacks) ELSE CHOOSE k \in stop : \A m \in stop : k <= m
    IN  [R EXCEPT !.ran = @ \o [k \in 1..(last - i + 1) |-> <<callId, i + k - 1>>]]

\* callbacks.forEach((callback, index) => { try { callback() } catch (error) { ... } })
\* over the array fetched before the loop, from index i on
RECURSIVE ForEachCallback(_, _, _, _)
ForEachCallback(callId, callbacks, i, R) ==
    IF i > Len(callbacks) THEN R
    ELSE LET R1 == [R EXCEPT !.ran = Append(@, <<callId, i>>)]
             R2 == IF callbacks[i] = "removes"
                   THEN [R1 EXCEPT !.map[callId] = NoCallbacks]
                   ELSE R1
         IN  ForEachCallback(callId, callbacks, i + 1, R2)

\* A call on the registry starts from the map as it is and an empty run record
Called(op, callId) ==
    [registry EXCEPT !.op = op, !.arg = callId, !.before = registry.map, !.ran = <<>>]

\* registerCleanupCallback(callId, callback)
RegisterCleanupCallback(callId, callback) ==
    /\ Len(registry.map[callId].list) < MaxRegistered
    /\ registry' = [Called("register", callId) EXCEPT
                       !.map[callId] = [has |-> TRUE, list |-> Append(@.list, callback)]]
    /\ UNCHANGED notRegistry

\* executeCleanupCallbacks(callId)
ExecuteCleanupCallbacks(callId) ==
    /\ registry' =
           IF registry.map[callId].has
           THEN [ForEachCallback(callId, registry.map[callId].list, 1, Called("execute", callId))
                     EXCEPT !.map[callId] = NoCallbacks]
           ELSE Called("execute", callId)
    /\ UNCHANGED notRegistry

\* removeCleanupCallbacks(callId)
RemoveCleanupCallbacks(callId) ==
    /\ registry' = [Called("remove", callId) EXCEPT !.map[callId] = NoCallbacks]
    /\ UNCHANGED notRegistry

\* getActiveCallIds()
GetActiveCallIds == {c \in RegistryIds : registry.map[c].has}

RegistryNext ==
    \/ \E c \in RegistryIds, k \in RegistryCallbacks : RegisterCleanupCallback(c, k)
    \/ \E c \in RegistryIds : ExecuteCleanupCallbacks(c)
    \/ \E c \in RegistryIds : RemoveCleanupCallbacks(c)

----------------------------------------------------------------------------
(* The worker script (index.js): the process hooks, ServerlessAPI(config),   *)
(* the HTTP server's bind with the dynamic-port fallback, the endpoints, and *)
(* the handlers its parent (ProcessManager.forkProcess) keeps on it          *)

\* config.dynamicPort: false, true (the default), or an integer
DynamicPorts == {[int |-> FALSE, v |-> 0], [int |-> FALSE, v |-> 1], [int |-> TRUE, v |-> 1]}

\* JavaScript truthiness of dynamicPort
PortTruthy(d) == d.v # 0

\* The worker right after fork(): hooks installed, `let server = null`
NewWorkerProcess ==
    [server |-> "null",             \* module-level `server`: "null" | "set"
     exitCode |-> "none",           \* "none" while the process runs, "0" after process.exit(0)
     connected |-> TRUE,            \* process.connected
     shuttingDown |-> FALSE,        \* process.shuttingDown
     init |-> "none",               \* pluginManager.init(): "none" | "running" | "done" | "failed"
     dynamicPort |-> [int |-> FALSE, v |-> 1],
     binds |-> 0,                   \* server.listen() calls whose outcome is pending
     listening |-> FALSE,           \* the HTTP server is bound
     closing |-> FALSE,             \* server.close() was called
     testServers |-> <<>>,          \* the probe servers: [handlers: once('listening') handlers
                                    \*  on it, probing: a testServer.listen() is pending]
     probes |-> 0,                  \* tryNextPort() calls
     endpoints |-> 0,               \* registerEndpoints() calls
     sent |-> <<>>,                 \* IPC messages sent to the parent, in order
     conns |-> FALSE,               \* some client connection is open
     \* ---- record of what happened ----
     stop |-> "none",               \* the first stop request received: "message" | "SIGTERM"
     gotShutdown |-> FALSE,         \* a {type:'shutdown'} message was received
     gotSignal |-> FALSE,           \* a SIGTERM not sent by the parent was received
     bound |-> 0,                   \* 'listening' events of the HTTP server
     bindErrors |-> 0,              \* 'error' events of the HTTP server
     probeOk |-> 0,                 \* 'listening' events of probe servers
     probeBoots |-> 0,              \* boot() calls made by the last probe 'listening' event
     uncaught |-> 0,                \* uncaught exceptions raised
     faults |-> 0,                  \* faults that do not come from the fallback itself
     answers |-> {},                \* the HTTP requests answered: [afterStop, status]
     \* ---- the parent's side (forkProcess and _setupPersistentHandlers) ----
     parent |-> [read |-> 0,        \* messages of `sent` handled
                 isReady |-> FALSE, killed |-> FALSE,
                 record |-> FALSE,  \* this.processes.has(processId)
                 handlers |-> 0,    \* _setupPersistentHandlers() calls
                 settled |-> "pending",  \* forkProcess's promise
                 signal |-> FALSE,  \* a SIGTERM sent by kill() is on its way
                 sawExit |-> FALSE]]

WorkerIdle == worker = NewWorkerProcess

Running == worker.exitCode = "none"

\* if (process.connected) process.send(message)
Send(W, type) == IF W.connected THEN [W EXCEPT !.sent = Append(@, type)] ELSE W

\* process.on('uncaughtException'): log, forward when connected
OnUncaughtException(W) == Send([W EXCEPT !.uncaught = @ + 1], "error")

\* shutdown()
Shutdown(W) ==
    IF W.server = "set"
    THEN [W EXCEPT !.closing = TRUE]        \* server.close(() => process.exit(0))
    ELSE [W EXCEPT !.exitCode = "0"]

\* registerEndpoints()
RegisterEndpoints(W) == [W EXCEPT !.endpoints = @ + 1]

\* bindFinished() with registerEndpoints() left out
BindFinishedBare(W) == Send([W EXCEPT !.listening = TRUE, !.bound = @ + 1], "ready")

\* bindFinished(): the 'listening' listener of the HTTP server (called with no error)
BindFinished(W) ==
    Send(RegisterEndpoints([W EXCEPT !.listening = TRUE, !.bound = @ + 1]), "ready")

\* tryNextPort() on probe server t
TryNextPort(W, t) ==
    [W EXCEPT !.dynamicPort = IF @.int THEN [@ EXCEPT !.v = @ - 1] ELSE @,
              !.probes = @ + 1,
              !.testServers[t] = [handlers |-> @.handlers + 1, probing |-> TRUE]]

\* listenCallback(err): the 'error' listener of the HTTP server
ListenCallback(W, code) ==
    IF PortTruthy(W.dynamicPort) /\ code = "EADDRINUSE"
    THEN LET W1 == [W EXCEPT !.testServers = Append(@, [handlers |-> 0, probing |-> FALSE])]
         IN  TryNextPort(W1, Len(W1.testServers))
    ELSE Send([W EXCEPT !.faults = @ + 1], "error")

\* The 'listening' event of probe server t: every once('listening') handler
\* left on it runs testServer.close(); boot().  A server.listen() on a server
\* that is already listening, or asked to, either throws (which ends the emit
\* and reaches the uncaughtException hook) or is taken as one more pending bind.
ProbeListening(W, t, throws) ==
    LET k == W.testServers[t].handlers
        busy == W.binds > 0 \/ W.listening
        taken == IF throws THEN (IF busy THEN 0 ELSE 1) ELSE k
        threw == throws /\ taken < k
        W1 == [W EXCEPT !.testServers[t] =
                            [handlers |-> IF threw THEN k - taken - 1 ELSE 0, probing |-> FALSE],
                        !.binds = @ + taken,
                        !.probeOk = @ + 1,
                        !.probeBoots = IF threw THEN taken + 1 ELSE taken]
    IN  IF threw THEN OnUncaughtException(W1) ELSE W1

\* process.on('message'), {type:'start', config}: server = ServerlessAPI(config)
Start(storage, dynamicPort) ==
    /\ Running /\ worker.connected
    /\ worker.server = "null" /\ worker.init = "none" /\ worker.uncaught = 0
    /\ worker' =
           IF ~storage
           THEN OnUncaughtException([worker EXCEPT !.faults = @ + 1])
           ELSE [worker EXCEPT !.dynamicPort = dynamicPort,
                               !.init = "running",      \* the async block, not awaited
                               !.binds = 1,             \* boot()
                               !.server = "set"]
    /\ UNCHANGED notWorker

\* pluginManager.init() settles; a rejection is caught and logged
InitSettles(ok) ==
    /\ Running /\ worker.init = "running"
    /\ worker' = [worker EXCEPT !.init = IF ok THEN "done" ELSE "failed"]
    /\ UNCHANGED notWorker

BindCodes == {"EADDRINUSE", "EACCES"}

\* The HTTP server's 'listening' event
ServerListening ==
    /\ Running /\ ~worker.closing /\ worker.binds > 0
    /\ worker' = BindFinished([worker EXCEPT !.binds = @ - 1])
    /\ UNCHANGED notWorker

\* The HTTP server's 'error' event
ServerError(code) ==
    /\ Running /\ ~worker.closing /\ worker.binds > 0
    /\ (PortTruthy(worker.dynamicPort) /\ code = "EADDRINUSE") => worker.probes < MaxProbes
    /\ worker' = ListenCallback([worker EXCEPT !.binds = @ - 1, !.bindErrors = @ + 1], code)
    /\ UNCHANGED notWorker

\* A probe server's 'listening' event
ProbeSucceeds(t, throws) ==
    /\ Running /\ ~worker.closing
    /\ t \in DOMAIN worker.testServers /\ worker.testServers[t].probing
    /\ worker' = ProbeListening(worker, t, throws)
    /\ UNCHANGED notWorker

\* A probe server's 'error' event: the once('error') handler of the running probe
ProbeFails(t, code) ==
    /\ Running /\ ~worker.closing
    /\ t \in DOMAIN worker.testServers /\ worker.testServers[t].probing
    /\ code = "EADDRINUSE" => worker.probes < MaxProbes
    /\ worker' =
           IF code = "EADDRINUSE"
           THEN TryNextPort(worker, t)
           ELSE Send([worker EXCEPT !.testServers[t].probing = FALSE, !.faults = @ + 1], "error")
    /\ UNCHANGED notWorker

\* process.on('message'), {type:'shutdown'}
ShutdownMessage ==
    /\ Running /\ worker.connected /\ ~worker.gotShutdown
    /\ worker' = Shutdown([worker EXCEPT !.gotShutdown = TRUE,
                                         !.stop = IF @ = "none" THEN "message" ELSE @])
    /\ UNCHANGED notWorker

\* process.on('SIGTERM'), the signal sent by the parent's kill() or by anyone else
Sigterm(fromParent) ==
    /\ Running
    /\ IF fromParent THEN worker.parent.signal ELSE ~worker.gotSignal
    /\ worker' = Shutdown([worker EXCEPT !.shuttingDown = TRUE,
                                         !.stop = IF @ = "none" THEN "SIGTERM" ELSE @,
                                         !.gotSignal = IF fromParent THEN @ ELSE TRUE,
                                         !.parent.signal = IF fromParent THEN FALSE ELSE @])
    /\ UNCHANGED notWorker

\* The callback of server.close(): every connection has ended
ServerClosed ==
    /\ Running /\ worker.closing /\ ~worker.conns
    /\ worker' = [worker EXCEPT !.exitCode = "0", !.listening = FALSE]
    /\ UNCHANGED notWorker

\* The first client connects
Connect ==
    /\ Running /\ worker.listening /\ ~worker.closing /\ ~worker.conns
    /\ worker' = [worker EXCEPT !.conns = TRUE]
    /\ UNCHANGED notWorker

\* The last open connection ends
ConnectionEnd ==
    /\ Running /\ worker.conns
    /\ worker' = [worker EXCEPT !.conns = FALSE]
    /\ UNCHANGED notWorker

\* A request on an open connection passes gracefulTerminationWatcher first
Request ==
    /\ Running /\ worker.conns
    /\ worker' = [worker EXCEPT !.answers =
                      @ \cup {[afterStop |-> worker.stop # "none",
                                status |-> IF worker.shuttingDown THEN "503" ELSE "next"]}]
    /\ UNCHANGED notWorker

\* Something in the worker throws outside every try block
UncaughtException ==
    /\ Running /\ worker.server = "set" /\ worker.uncaught < MaxUncaught
    /\ worker' = OnUncaughtException([worker EXCEPT !.faults = @ + 1])
    /\ UNCHANGED notWorker

\* The IPC channel closes (the parent disconnects or is gone)
ChannelCloses ==
    /\ Running /\ worker.connected /\ worker.server = "set"
    /\ worker' = [worker EXCEPT !.connected = FALSE]
    /\ UNCHANGED notWorker

\* forkProcess: childProcess.on('message')
ParentOnMessage ==
    /\ worker.parent.read < Len(worker.sent)
    /\ LET m == worker.sent[worker.parent.read + 1]
           P == [worker.parent EXCEPT !.read = @ + 1]
       IN  worker' = [worker EXCEPT !.parent =
               IF m = "ready"
               THEN [P EXCEPT !.isReady = TRUE, !.record = TRUE, !.handlers = @ + 1,
                              !.settled = IF @ = "pending" THEN "resolved" ELSE @]
               ELSE [P EXCEPT !.signal = IF ~P.killed /\ Running THEN TRUE ELSE @,
                              !.killed = TRUE,
                              !.settled = IF @ = "pending" THEN "rejected" ELSE @]]
    /\ UNCHANGED notWorker

\* forkProcess: childProcess.on('exit'), and the persistent 'exit' handlers;
\* the messages the child sent before it exited are handled first
ParentOnExit ==
    /\ ~Running /\ ~worker.parent.sawExit
    /\ worker.parent.read = Len(worker.sent)
    /\ LET P == worker.parent
       IN  worker' = [worker EXCEPT !.parent =
               [P EXCEPT !.sawExit = TRUE,
                         !.record = IF P.handlers > 0 THEN FALSE ELSE @,
                         !.settled = IF ~P.isReady /\ @ = "pending" THEN "rejected" ELSE @]]
    /\ UNCHANGED notWorker

\* The bootstrap alone: start, loader init, bind, port fallback, the parent's
\* message handler
WorkerBootNext ==
    \/ \E storage \in BOOLEAN, d \in DynamicPorts : Start(storage, d)
    \/ \E ok \in BOOLEAN : InitSettles(ok)
    \/ ServerListening
    \/ \E code \in BindCodes : ServerError(code)
    \/ \E t \in 1..MaxProbes, throws \in BOOLEAN : ProbeSucceeds(t, throws)
    \/ \E t \in 1..MaxProbes, code \in BindCodes : ProbeFails(t, code)
    \/ ChannelCloses
    \/ ParentOnMessage

WorkerScriptNext ==
    \/ \E storage \in BOOLEAN, d \in DynamicPorts : Start(storage, d)
    \/ \E ok \in BOOLEAN : InitSettles(ok)
    \/ ServerListening
    \/ \E code \in BindCodes : ServerError(code)
    \/ \E t \in 1..MaxProbes, throws \in BOOLEAN : ProbeSucceeds(t, throws)
    \/ \E t \in 1..MaxProbes, code \in BindCodes : ProbeFails(t, code)
    \/ ShutdownMessage
    \/ \E fromParent \in BOOLEAN : Sigterm(fromParent)
    \/ ServerClosed
    \/ Connect
    \/ ConnectionEnd
    \/ Request
    \/ UncaughtException
    \/ ChannelCloses
    \/ ParentOnMessage
    \/ ParentOnExit

----------------------------------------------------------------------------
(* CMBResponseMixin: polling of the external webhook                         *)

\* number of interval callbacks that are followed
MaxPolls == 3

\* what one run of the interval callback gets from the external webhook: the
\* fetch fails or the response is not ok, or the body's status
PollResults == {"failed", "pending", "completed"}

\* the closure after CMBResponseMixin(target): pollExternalWebhook() has set the
\* interval, no callback is registered
NewCMBResponse ==
    [pollingInterval |-> "set", onExternalWebhookCallback |-> FALSE,
     polls |-> <<>>, completed |-> 0, invoked |-> 0, rejected |-> 0,
     terminal |-> "none"]

CmbIdle == cmb = NewCMBResponse

\* target.onExternalWebhook(callback)
OnExternalWebhook ==
    /\ ~cmb.onExternalWebhookCallback
    /\ cmb' = [cmb EXCEPT !.onExternalWebhookCallback = TRUE]
    /\ UNCHANGED notCmb

\* the interval fires: the async callback starts and suspends in fetch(); the
\* record keeps what had happened when it started
PollTick ==
    /\ cmb.pollingInterval = "set"
    /\ Len(cmb.polls) < MaxPolls
    /\ cmb' = [cmb EXCEPT !.polls = Append(@, [pc |-> "fetch",
                                               afterCompleted |-> cmb.completed > 0,
                                               afterTerminal |-> cmb.terminal # "none"])]
    /\ UNCHANGED notCmb

\* the rest of the interval callback, once fetch() and response.json() settled:
\* on status 'completed' it clears the interval and calls the callback, a call of
\* null throwing inside the async callback
PollReturns(i, result) ==
    /\ i \in DOMAIN cmb.polls
    /\ cmb.polls[i].pc = "fetch"
    /\ LET P == [cmb EXCEPT !.polls[i].pc = "done"]
       IN  cmb' = IF result = "completed"
                  THEN [P EXCEPT !.pollingInterval = "cleared",
                                 !.completed = @ + 1,
                                 !.invoked = IF P.onExternalWebhookCallback THEN @ + 1 ELSE @,
                                 !.rejected = IF P.onExternalWebhookCallback THEN @ ELSE @ + 1]
                  ELSE P
    /\ UNCHANGED notCmb

\* the owning response becomes terminal: end(), _handleError() and the expiry
\* callback of the CMB flavors do not touch the mixin's interval
OwnerTerminal(how) ==
    /\ cmb.terminal = "none"
    /\ cmb' = [cmb EXCEPT !.terminal = how]
    /\ UNCHANGED notCmb

PollNext ==
    \/ OnExternalWebhook
    \/ PollTick
    \/ \E i \in 1..MaxPolls, result \in PollResults : PollReturns(i, result)
    \/ \E how \in {"end", "error", "expiry"} : OwnerTerminal(how)

----------------------------------------------------------------------------
(* Specifications *)

\* restartProcess(id) called MaxRestarts times on a registered worker
SpecConcurrentRestartInit == OneRegistered /\ SupIdle /\ ForkIdle /\ LoadedAB /\ DispatchIdle /\ RespIdle /\ RegistryIdle /\ WorkerIdle /\ CmbIdle
SpecConcurrentRestart == SpecConcurrentRestartInit /\ [][ConcurrentRestartNext]_vars

\* one CMB response and its polling interval
SpecPollInit == CmbIdle /\ LoadedAB /\ DispatchIdle /\ RespIdle /\ ForkIdle /\ SupIdle /\ RegistryIdle /\ WorkerIdle /\ RstIdle
SpecPoll == SpecPollInit /\ [][PollNext]_vars

\* PluginManager.init() on every plugins directory
SpecLoaderInit == LoaderInit /\ DispatchIdle /\ RespIdle /\ ForkIdle /\ SupIdle /\ RegistryIdle /\ WorkerIdle /\ CmbIdle /\ RstIdle
SpecLoader == SpecLoaderInit /\ [][LoaderNext]_vars

\* PluginManager.executeCommand() on a loaded PluginManager
SpecDispatchInit == LoadedAB /\ DispatchIdle /\ RespIdle /\ ForkIdle /\ SupIdle /\ RegistryIdle /\ WorkerIdle /\ CmbIdle /\ RstIdle
SpecDispatch == SpecDispatchInit /\ [][DispatchNext]_vars

\* One delayed response of any flavor, from its construction on
SpecResponseInit == RespInit /\ LoadedAB /\ DispatchIdle /\ ForkIdle /\ SupIdle /\ RegistryIdle /\ WorkerIdle /\ CmbIdle /\ RstIdle
SpecResponse == SpecResponseInit /\ [][RespNext]_vars

\* A delayed response whose plugin never calls progress() or end(): listeners are
\* registered, the expiry timer or the registry fires, PUTs issued from inside
\* callbacks settle. A timer that is due fires.
ExpiryNext ==
    \/ \E k \in CallbackKinds : OnError(k)
    \/ \E k \in CallbackKinds : AddCleanupCallback(k)
    \/ \E k \in CallbackKinds : AddResourceCleanupCallback(k)
    \/ TimerFire
    \/ RegistryExecute
    \/ \E p \in resp.inflight, ok \in BOOLEAN : Settle(p, ok)

FairSpecExpiryInit == RespInit /\ LoadedAB /\ DispatchIdle /\ ForkIdle /\ SupIdle /\ RegistryIdle /\ WorkerIdle /\ CmbIdle /\ RstIdle
FairSpecExpiry == FairSpecExpiryInit /\ [][ExpiryNext]_vars /\ WF_vars(TimerFire)

\* PluginManager.init() and restart() on every plugins directory
SpecReloadInit == LoaderInit /\ DispatchIdle /\ RespIdle /\ ForkIdle /\ SupIdle /\ RegistryIdle /\ WorkerIdle /\ CmbIdle /\ RstIdle
SpecReload == SpecReloadInit /\ [][LoaderNext \/ RestartNext]_vars

\* The cleanup registry under every sequence of register / execute / remove calls
SpecRegistryInit == RegistryIdle /\ LoadedAB /\ DispatchIdle /\ RespIdle /\ ForkIdle /\ SupIdle /\ WorkerIdle /\ CmbIdle /\ RstIdle
SpecRegistry == SpecRegistryInit /\ [][RegistryNext]_vars

\* The worker's HTTP handler under overlapping executeCommand requests
SpecOverlapInit == LoadedAB /\ OverlapIdle /\ RespIdle /\ ForkIdle /\ SupIdle /\ RegistryIdle /\ WorkerIdle /\ CmbIdle /\ RstIdle
SpecOverlap == SpecOverlapInit /\ [][HandlerNext]_vars

\* The bootstrap of one worker
SpecBootInit == WorkerIdle /\ LoadedAB /\ DispatchIdle /\ RespIdle /\ ForkIdle /\ SupIdle /\ RegistryIdle /\ CmbIdle /\ RstIdle
SpecBoot == SpecBootInit /\ [][WorkerBootNext]_vars

\* One worker from fork() on, with its parent
SpecWorkerInit == WorkerIdle /\ LoadedAB /\ DispatchIdle /\ RespIdle /\ ForkIdle /\ SupIdle /\ RegistryIdle /\ CmbIdle /\ RstIdle
SpecWorker == SpecWorkerInit /\ [][WorkerScriptNext]_vars

\* The same, where the parent handles every message and exit, signals are
\* delivered, connections end and the close callback runs
FairSpecWorkerInit == WorkerIdle /\ LoadedAB /\ DispatchIdle /\ RespIdle /\ ForkIdle /\ SupIdle /\ RegistryIdle /\ CmbIdle /\ RstIdle
FairSpecWorker ==
    /\ FairSpecWorkerInit /\ [][WorkerScriptNext]_vars
    /\ WF_vars(ParentOnMessage) /\ WF_vars(ParentOnExit)
    /\ WF_vars(Sigterm(TRUE))
    /\ WF_vars(ConnectionEnd) /\ WF_vars(ServerClosed)

\* A manager whose init() failed on the cycle A -> B -> A
FailedCycle ==
    /\ fileState = [n \in Names |-> IF n = "C" THEN "none" ELSE "ok"]
    /\ depsOf = [n \in Names |-> IF n = "A" THEN <<"B">> ELSE IF n = "B" THEN <<"A">> ELSE <<>>]
    /\ plugins = [n \in Names |-> 0]
    /\ loadOrder = <<>>
    /\ initialized = FALSE
    /\ isRestarting = FALSE
    /\ initPc = "failed"
    /\ sortedPlugins = <<>>
    /\ regIdx = 0
    /\ attempts = <<>>
    /\ initRuns = 1
    /\ restartPc = "idle"
    /\ shutdownCalls = <<>>
    /\ duplicates = {}

\* Commands dispatched while the manager is restarted
SpecRestartInit == (LoadedAB \/ FailedCycle) /\ DispatchIdle /\ RespIdle /\ ForkIdle /\ SupIdle /\ RegistryIdle /\ WorkerIdle /\ CmbIdle /\ RstIdle
SpecRestart == SpecRestartInit /\ [][RestartNext \/ RestartDispatchNext]_vars

\* One forkProcess / createServerlessAPI call of a ProcessManager
SpecForkInit == ForkIdle /\ LoadedAB /\ DispatchIdle /\ RespIdle /\ SupIdle /\ RegistryIdle /\ WorkerIdle /\ CmbIdle /\ RstIdle
SpecFork == SpecForkInit /\ [][ForkNext]_vars

\* The same, with the 30 s readiness timer firing when it is due
FairSpecForkInit == ForkIdle /\ LoadedAB /\ DispatchIdle /\ RespIdle /\ SupIdle /\ RegistryIdle /\ WorkerIdle /\ CmbIdle /\ RstIdle
FairSpecFork == FairSpecForkInit /\ [][ForkNext]_vars /\ WF_vars(ReadyTimeoutFires)

\* A ProcessManager with one worker id: fork, restartProcess, kill(), close()
SpecSupervisorInit == SupIdle /\ ForkIdle /\ LoadedAB /\ DispatchIdle /\ RespIdle /\ RegistryIdle /\ WorkerIdle /\ CmbIdle /\ RstIdle
SpecSupervisor == SpecSupervisorInit /\ [][SupervisorNext]_vars

\* The same, where timers fire, the secrets service answers, and a child that was
\* sent SIGKILL exits
KilledExit(h) == WorkerExit(h) /\ sup.workers[h].signal = "SIGKILL"
FairSpecSupervisorInit == SupIdle /\ ForkIdle /\ LoadedAB /\ DispatchIdle /\ RespIdle /\ RegistryIdle /\ WorkerIdle /\ CmbIdle /\ RstIdle
FairSpecSupervisor ==
    /\ FairSpecSupervisorInit
    /\ [][SupervisorNext]_vars
    /\ WF_vars(ForceKillTimeout)
    /\ WF_vars(\E t \in BOOLEAN : RestartResume(t))
    /\ \A h \in WorkerHandles : WF_vars(WorkerReadyTimeout(h))
    /\ \A h \in WorkerHandles : WF_vars(KilledExit(h))

\* A ProcessManager with workers under two ids, and terminateAll(); timers fire
FairSpecTerminateInit == SupIdle /\ ForkIdle /\ LoadedAB /\ DispatchIdle /\ RespIdle /\ RegistryIdle /\ WorkerIdle /\ CmbIdle /\ RstIdle
FairSpecTerminate ==
    /\ FairSpecTerminateInit
    /\ [][TerminateNext]_vars
    /\ \A h \in WorkerHandles : WF_vars(TerminateTimeout(h))

----------------------------------------------------------------------------
(* Claims about PluginManager.init() *)

InitCompleted == initPc = "done" /\ initialized

Discovered(d) == fileState[d] = "ok"

Before(s, d, p) == IndexOf(s, d) # 0 /\ IndexOf(s, p) # 0 /\ IndexOf(s, d) < IndexOf(s, p)

DeclaredEdges ==
    {e \in Names \X Names :
        Discovered(e[1]) /\ Discovered(e[2]) /\ e[2] \in Range(depsOf[e[1]])}

RECURSIVE ReachedIn(_, _)
\* The plugins reached from the set S along at most k declared dependencies
ReachedIn(S, k) ==
    IF k = 0 THEN S
    ELSE ReachedIn(S \cup {e[2] : e \in {d \in DeclaredEdges : d[1] \in S}}, k - 1)

\* The declared dependencies contain a cycle: some plugin is reached from one of
\* its own dependencies (a self-loop included)
DeclaredCycle ==
    \E e \in DeclaredEdges : e[1] \in ReachedIn({e[2]}, Cardinality(Names))

\* C17: when the dependencies declared among the discovered plugins contain a
\* cycle, init() never gets past the sorter: it fails with the 'Circular
\* dependency' error, no plugin is registered and the loader is not initialized.
C17_CycleFailsInit ==
    DeclaredCycle =>
        /\ initPc \in {"idle", "deps", "failed"}
        /\ ~initialized
        /\ loadOrder = <<>> /\ attempts = <<>>
        /\ \A n \in Names : plugins[n] = 0

\* C17 witness: X -> Y -> Z -> X, and init() failed
C17_Witness ==
    /\ depsOf = [n \in Names |-> IF n = "A" THEN <<"B">> ELSE IF n = "B" THEN <<"C">> ELSE <<"A">>]
    /\ \A n \in Names : Discovered(n)
    /\ initPc = "failed"

C30_UnresolvedIsAbsentEdge ==
    initPc \in {"register", "done"} =>
        /\ Range(sortedPlugins) = {n \in Names : Discovered(n)}
        /\ Len(sortedPlugins) = Cardinality({n \in Names : Discovered(n)})
        /\ \A i \in 1..Len(attempts) : Discovered(attempts[i])

\* C30: A depends on C, for which the directory has no file; the sorter returned
\* an order that names C
C30_Witness ==
    /\ fileState = [n \in Names |-> IF n = "A" THEN "ok" ELSE "none"]
    /\ depsOf["A"] = <<"C">>
    /\ initPc = "register"
    /\ sortedPlugins = <<"C", "A">>

\* C26: when init() meets a plugin name that is already in the registry, it fails
\* with the 'already registered' error instead of completing and reporting
\* initialized, and the instance registered before stays.
C26_DuplicateIsFatal ==
    /\ duplicates # {} => (initPc # "done" /\ ~initialized)
    /\ \A n \in duplicates : plugins[n] # 0 /\ plugins[n] < initRuns

\* C26: init() ran a second time over a registry that held A, met A again, and
\* completed
C26_Witness ==
    /\ initRuns = 2
    /\ "A" \in duplicates
    /\ plugins["A"] = 1
    /\ initPc = "done" /\ initialized

\* The step in which restart() leaves its shutdown loop: it clears the registry and
\* calls init()
RestartClears == restartPc # "init" /\ restartPc' = "init"

\* C25: restart() calls shutdown() exactly once on every registered plugin that
\* defines it, in load order, also past a shutdown() that throws; it empties the
\* registry and the load order before init() re-runs; and when it resolves the
\* registry holds only instances that this re-run of init() created.
C25_RestartShutsDownAll ==
    /\ [][RestartClears =>
            /\ Range(shutdownCalls') = {n \in Names : plugins[n] # 0 /\ DefinesShutdown(n)}
            /\ \A i, j \in 1..Len(shutdownCalls') :
                   i < j => Before(loadOrder, shutdownCalls'[i], shutdownCalls'[j])
            /\ plugins' = [n \in Names |-> 0]
            /\ loadOrder' = <<>>]_vars
    /\ [][(restartPc = "init" /\ restartPc' = "idle" /\ ~isRestarting') =>
            \A n \in Names : plugins'[n] \in {0, initRuns'}]_vars

\* C25: restart() resolved on a manager whose registry held A and B while its
\* load order was empty; no shutdown() was called
C25_Witness ==
    /\ restartPc = "idle" /\ ~isRestarting
    /\ initRuns = 3
    /\ shutdownCalls = <<>>
    /\ plugins["A"] = 3 /\ plugins["B"] = 3

----------------------------------------------------------------------------
(* Claims about PluginManager.executeCommand() *)

\* C2: a command whose allow predicate returned (or resolved to) strict false never
\* has its plugin method invoked, and executeCommand fails with the 'not allowed' error.
C2_DeniedNeverInvoked ==
    /\ \A c \in CmdSlots : cmds[c].pc = "method" => cmds[c].allowResult # "false"
    /\ (lastDone.pc = "settled" /\ lastDone.allowResult = "false") =>
          /\ ~lastDone.invoked
          /\ lastDone.outcome = "threw"
          /\ lastDone.detail = "NotAllowed"

\* C2 witness: allow returned false for a command naming an existing method of a
\* registered plugin, and the command settled
C2_Witness ==
    /\ lastDone.pc = "settled"
    /\ lastDone.allowResult = "false"
    /\ lastDone.cmd = ValidCmd("B", "testMethod")
    /\ lastDone.inst = 1

\* A step that is a call of executeCommand(): a free slot takes the command (and
\* may settle it at once) while the other invocations stay where they are
ExecCalled ==
    \E c \in CmdSlots :
        /\ cmds[c].pc = "free"
        /\ \A d \in CmdSlots \ {c} : cmds'[d] = cmds[d]
        /\ cmds'[c] # cmds[c] \/ lastDone' # lastDone

\* C19: while isRestarting is true, a call of executeCommand returns
\* {operationType: 'restart', result: undefined} for every command, and calls no
\* plugin's allow predicate and no plugin method.
C19_RestartShortCircuit ==
    [][(isRestarting /\ ExecCalled) =>
          /\ cmds' = cmds
          /\ lastDone'.pc = "settled"
          /\ lastDone'.outcome = "returned"
          /\ lastDone'.detail = [operationType |-> "restart", result |-> "<undefined>"]
          /\ lastDone'.allowResult = "<none>"
          /\ ~lastDone'.invoked]_vars

\* C19: a well-formed command for the registered plugin A was answered with
\* 'restart' while restart() awaited the plugins' shutdown
C19_Witness ==
    /\ isRestarting /\ restartPc = "shutdown"
    /\ plugins["A"] # 0
    /\ lastDone.pc = "settled"
    /\ lastDone.cmd = ValidCmd("A", "testMethod")
    /\ lastDone.outcome = "returned"
    /\ lastDone.detail = [operationType |-> "restart", result |-> "<undefined>"]

\* The classification of a method's return value: the operation type and the result
Classified(v) ==
    IF v \in Flavors
    THEN [operationType |-> CASE v = "SlowResponse" -> "slowLambda"
                              [] v = "ObservableResponse" -> "observableLambda"
                              [] v = "CMBSlowResponse" -> "cmbSlowLambda"
                              [] v = "CMBObservableResponse" -> "cmbObservableLambda",
          result |-> "callId"]
    ELSE [operationType |-> "sync", result |-> v]

\* C21: what the plugin method returned is mapped to 'sync' with an undefined result
\* for undefined, to the lambda type of its class with its callId for the four
\* response classes, and to 'sync' with the value unchanged for every other value
\* (null, false, 0, strings, plain objects included), never to an error.
C21_ResultClassified ==
    (lastDone.pc = "settled" /\ lastDone.methodResult # "<none>") =>
        /\ lastDone.outcome = "returned"
        /\ lastDone.detail = Classified(lastDone.methodResult)

\* C21: the plugin method returned null and executeCommand settled
C21_Witness ==
    /\ lastDone.pc = "settled"
    /\ lastDone.invoked
    /\ lastDone.methodResult = "<null>"

\* A command object with a part the command structure forbids: forWhom, name or
\* pluginName missing, empty or not a string, or args not an array
Malformed(cmd) ==
    /\ cmd.kind = "<object>"
    /\ \/ ~Truthy(cmd.forWhom) \/ ~IsString(cmd.forWhom)
       \/ ~Truthy(cmd.name) \/ ~IsString(cmd.name)
       \/ ~Truthy(cmd.pluginName) \/ ~IsString(cmd.pluginName)
       \/ cmd.args # "<array>"

\* C20: every command in which forWhom, name or pluginName is missing, empty or not
\* a string, or in which args is not an array, fails with the 'Invalid command'
\* error before any plugin's allow predicate or method is called.
C20_MalformedRejected ==
    /\ \A c \in CmdSlots : cmds[c].pc \in {"allow", "method"} => ~Malformed(cmds[c].cmd)
    /\ (lastDone.pc = "settled" /\ Malformed(lastDone.cmd)) =>
          /\ lastDone.allowResult = "<none>"
          /\ ~lastDone.invoked
          /\ lastDone.outcome = "threw"
          /\ lastDone.detail = "InvalidCommand"

\* C20: a command with an empty forWhom reached the method of a registered plugin
C20_Witness ==
    /\ lastDone.pc = "settled"
    /\ lastDone.cmd = [ValidCmd("A", "testMethod") EXCEPT !.forWhom = ""]
    /\ lastDone.invoked

----------------------------------------------------------------------------
(* Claims about delayed responses *)

\* How often the idx-th callback of a list ran
Runs(kind, idx) ==
    Cardinality({j \in 1..Len(resp.log) : resp.log[j].kind = kind /\ resp.log[j].idx = idx})

\* The plugin's k-th cleanup callback sits behind the flavor's own one
CleanupIdx(k) == IF resp.slow THEN k + 1 ELSE k

Terminal == resp.terminalBy # "none"

\* The completing end() had its PUT refused
EndFailed == resp.terminalBy = "end" /\ resp.endSettled = "failed"

\* C3: SlowResponse / CMBSlowResponse: once the response is completed, no later
\* progress(), end() or expiry issues a webhook PUT or runs a callback, calls made
\* from inside an onError or cleanup callback of the terminal step included.
C3_NothingAfterCompletion ==
    resp.slow =>
        /\ \A i \in 1..Len(resp.puts) : ~resp.puts[i].late
        /\ \A j \in 1..Len(resp.log) : ~resp.log[j].late

\* C4: SlowResponse / CMBSlowResponse: once the response is terminal and every PUT
\* has settled, each resource-cleanup callback has run exactly once, each onError
\* listener exactly once if the response ended by error or expiry and not at all
\* after a successful end(); nothing ever runs twice.
C4_ExactlyOnceDelivery ==
    resp.slow =>
        /\ \A i \in 1..resp.nErr : Runs("error", i) <= 1
        /\ \A i \in 1..resp.nRes : Runs("resource", i) <= 1
        /\ (Terminal /\ resp.inflight = {}) =>
              /\ \A i \in 1..resp.nRes : Runs("resource", i) = 1
              /\ \A i \in 1..resp.nErr :
                    Runs("error", i) = IF resp.terminalBy = "end" /\ ~EndFailed THEN 0 ELSE 1

\* A failed PUT the error path is claimed for: the PUT of a progress() or of the
\* completing end() of a response that had not completed before
ErrorPathDue(f) ==
    /\ ~f.late
    /\ f.op = "progress" => ~f.completedBefore

\* C5: SlowResponse / CMBSlowResponse: when the PUT of progress() or of end() fails,
\* the response is completed, every onError listener has run once with an error
\* carrying the callId, the resource-cleanup callbacks have run and the callId is
\* gone from the Cleanup Registry.
C5_FailedPutRunsErrorPath ==
    (resp.slow /\ \E f \in resp.failures : ErrorPathDue(f)) =>
        /\ Completed(resp)
        /\ \A i \in 1..resp.nErr :
              /\ Runs("error", i) = 1
              /\ \A j \in 1..Len(resp.log) :
                    (resp.log[j].kind = "error" /\ resp.log[j].idx = i)
                        => resp.log[j].callId = resp.callId
        /\ \A i \in 1..resp.nRes : Runs("resource", i) = 1
        /\ resp.registry = <<>>

\* C6: after a terminal transition (a successful end(), the error path, an expiry
\* by timer or by the registry) the callId has no entry in the Cleanup Registry.
C6_NoRegistryEntryLeft ==
    \/ resp.terminalBy \in {"error", "expiry"}
    \/ (resp.terminalBy = "end" /\ resp.endSettled = "ok")
    => resp.registry = <<>>

\* The expiry was delivered: every registered onError listener ran exactly once,
\* with code EXPIRED and the response's callId, every cleanup callback ran exactly
\* once, and the cleanup callbacks ran after the listeners
ExpiryDelivered ==
    /\ resp.terminalBy = "expiry"
    /\ \A i \in 1..resp.nErr :
          /\ Runs("error", i) = 1
          /\ \A j \in 1..Len(resp.log) :
                (resp.log[j].kind = "error" /\ resp.log[j].idx = i)
                    => (resp.log[j].code = ExpiryCode /\ resp.log[j].callId = resp.callId)
    /\ \A k \in 1..resp.nClean : Runs("cleanup", CleanupIdx(k)) = 1
    /\ \A i, j \in 1..Len(resp.log) :
          (resp.log[i].kind = "error" /\ resp.log[j].kind \in {"cleanup", "resource"}) => i < j

\* C7: a response that is never progressed or ended eventually expires: from some
\* point on every registered onError listener has run exactly once with code
\* 'EXPIRED' and the callId, and the cleanup callbacks have run after them.
C7_EventuallyExpired == <>[]ExpiryDelivered

\* C7 witness: a slow response with a listener and a cleanup callback expired
C7_Witness ==
    /\ resp.slow
    /\ resp.nErr = 1 /\ resp.nClean = 1
    /\ resp.calls = <<>>
    /\ ExpiryDelivered
    /\ Len(resp.log) = 2

ProgressPut(d) ==
    [endpoint |-> "/progress",
     body |-> [callId |-> CallId, status |-> "pending", progress |-> d],
     late |-> FALSE, call |-> 1]

ResultPut(r) ==
    [endpoint |-> "/result",
     body |-> [callId |-> CallId, status |-> "completed", result |-> r],
     late |-> FALSE, call |-> 2]

\* The response was first progressed, then ended, both before it was completed
RoundTrip ==
    /\ Len(resp.calls) >= 2
    /\ resp.calls[1].op = "progress" /\ ~resp.calls[1].late
    /\ resp.calls[2].op = "end" /\ ~resp.calls[2].late

\* C8: SlowResponse: progress(d) followed by end(r) issues exactly one PUT to
\* /progress with {callId, status 'pending', progress d} and then exactly one PUT to
\* /result with {callId, status 'completed', result r}, in this order, and no call
\* after them (a second end() among them) issues a PUT.
C8_RoundTripPuts ==
    (resp.slow /\ RoundTrip) =>
        resp.puts = <<ProgressPut(resp.calls[1].arg), ResultPut(resp.calls[2].arg)>>

\* C8 witness: progress(d), end(r) and a second end(), every PUT answered OK
C8_Witness ==
    /\ resp.slow /\ RoundTrip
    /\ Len(resp.calls) = 3 /\ resp.calls[3].op = "end"
    /\ resp.inflight = {} /\ resp.failures = {}
    /\ resp.endSettled = "ok"
    /\ Len(resp.puts) = 2

\* C9: ObservableResponse / CMBObservableResponse: after end() no progress() or
\* end() issues a PUT and no EXPIRED error is delivered.
C9_ObservableCompletesOnEnd ==
    ~resp.slow =>
        /\ \A i \in 1..Len(resp.puts) : ~resp.calls[resp.puts[i].call].afterEnd
        /\ \A j \in 1..Len(resp.log) :
              ~(resp.log[j].code = ExpiryCode /\ resp.log[j].afterEnd)

----------------------------------------------------------------------------
(* Claims about ProcessManager *)

\* The ready messages the child sent so far
ReadySent == {i \in 1..Len(childEvents) : childEvents[i].type = "ready"}

\* C10: the promise of forkProcess / createServerlessAPI is resolved only after the
\* child sent {type: 'ready', url, port}; the registry holds a record for the worker
\* id only after such a message; the resolved record carries the url and port of
\* the ready message (the first one), and the registry record those of a ready
\* message too.
C10_ReadyHandshake ==
    /\ forkPromise.state = "resolved" =>
          /\ ReadySent # {}
          /\ \E i \in ReadySent :
                /\ \A j \in ReadySent : i <= j
                /\ forkPromise.value = [url |-> childEvents[i].url, port |-> childEvents[i].port]
    /\ processes[ProcessId] # NoRecord =>
          \E i \in ReadySent :
              processes[ProcessId] = [url |-> childEvents[i].url, port |-> childEvents[i].port]
    /\ ReadySent = {} => (processes[ProcessId] = NoRecord /\ ~isReady)

\* C10 witness: createServerlessAPI resolved with the url and port of the ready
\* message that followed another message, and the record is registered
C10_Witness ==
    /\ forkPromise = [state |-> "resolved", via |-> "createServerlessAPI", reason |-> "<none>",
                      value |-> [url |-> "http://127.0.0.1:p2", port |-> "p2"]]
    /\ Len(childEvents) = 2 /\ childEvents[1].type = "other"
    /\ processes[ProcessId] = [url |-> "http://127.0.0.1:p2", port |-> "p2"]


ForkSettled == forkPromise.state \in {"resolved", "rejected"}

\* What the child did that settles the fork with the given rejection
RejectionCause(reason) ==
    CASE reason = "ChildReportedError" -> \E i \in 1..Len(childEvents) : childEvents[i].type = "error"
      [] reason = "ChildError" -> \E i \in 1..Len(childEvents) : childEvents[i] = ErrorEvent
      [] reason = "ExitedPrematurely" -> childProcess.state = "exited" /\ ~isReady
      [] reason = "ReadyTimeout" -> readyTimeout = "fired"
      [] reason = "StorageUndefined" -> childProcess.state = "none"
      [] OTHER -> FALSE

\* C11: every fork attempt settles, and settles once: a pending fork promise is
\* eventually resolved or rejected and never changes afterwards; it is resolved
\* only on ready and rejected only on an error message, a spawn error, an early
\* exit or the timeout; when the 30 s timer fires the promise is rejected with the
\* timeout error and SIGTERM has been sent to the child.
C11_ForkSettles ==
    /\ (forkPromise.state = "pending") ~> ForkSettled
    /\ [][ForkSettled => forkPromise' = forkPromise]_vars
    /\ [](forkPromise.state = "resolved" => ReadySent # {})
    /\ [](forkPromise.state = "rejected" => RejectionCause(forkPromise.reason))
    /\ [](readyTimeout = "fired" =>
            /\ forkPromise.state = "rejected" /\ forkPromise.reason = "ReadyTimeout"
            /\ childProcess.killed /\ childProcess.signal = "SIGTERM")

\* C11 witness: the child sent only messages that are neither ready nor error, the
\* timer fired, the fork was rejected and the child signalled
C11_Witness ==
    /\ readyTimeout = "fired"
    /\ childProcess.state = "running" /\ childProcess.signal = "SIGTERM"
    /\ forkPromise.state = "rejected" /\ forkPromise.reason = "ReadyTimeout"
    /\ childEvents = <<[type |-> "other", url |-> "<undefined>", port |-> "<undefined>"]>>

----------------------------------------------------------------------------
(* Claims about the ProcessManager supervisor *)

\* The step in which restartProcess() resolves
RestartResolves == sup.restart.pc # "resolved" /\ sup'.restart.pc = "resolved"

C13_OldExitsBeforeNewFork ==
    (sup.restart.pc \in {"fork", "resolved", "rejected"} /\ sup.restart.new # 0) =>
        sup.workers[sup.restart.old].state = "exited"

\* C13: the new child was forked while the old child, marked killed, still runs
C13_Witness ==
    /\ sup.restart.pc = "fork"
    /\ sup.workers[sup.restart.old].state = "running"
    /\ sup.workers[sup.restart.old].killed
    /\ sup.workers[sup.restart.new].state = "running"

RestartUnderWay == sup.restart.pc \in {"secrets", "wait", "fork"}

RestartSettled == sup.restart.pc \in {"resolved", "rejected"}

\* C14: every restartProcess(id) call on a registered id eventually settles, and
\* once it settled isRestarting(id) is false: the restarting flag is not left set.
C14_RestartSettles ==
    /\ RestartUnderWay ~> RestartSettled
    /\ [](RestartSettled => sup.restart.id \notin sup.restartingProcesses)

\* C14: restartProcess waits for a child that was sent SIGTERM, after its
\* force-kill timer fired without sending SIGKILL
C14_Witness ==
    /\ sup.restart.pc = "wait" /\ sup.restart.timer = "fired"
    /\ sup.workers[sup.restart.old].state = "running"
    /\ sup.workers[sup.restart.old].signal = "SIGTERM"
    /\ sup.restart.id \in sup.restartingProcesses

\* The children of an id that have not terminated
Alive(id) == {h \in Handles(sup) : sup.workers[h].id = id /\ sup.workers[h].state = "running"}

\* C15: for any id the registry holds at most one record, that record's child has
\* not terminated, at most one non-terminated child exists for the id, and the
\* record of a child that exited or was terminated with kill() is removed.
C15_WorkerRecordInvariant ==
    \A id \in WorkerIds :
        /\ sup.processes[id] # NoWorkerRecord =>
              /\ sup.processes[id].process \in Handles(sup)
              /\ sup.workers[sup.processes[id].process].state = "running"
              /\ sup.workers[sup.processes[id].process].id = id
        /\ Cardinality(Alive(id)) <= 1

\* C15: two workers forked under the same id, both ready and running; the record
\* of the id names the second
C15_Witness ==
    /\ Len(sup.workers) = 2
    /\ \A h \in {1, 2} : /\ sup.workers[h].id = "w1"
                         /\ sup.workers[h].state = "running"
                         /\ sup.workers[h].isReady
    /\ sup.processes["w1"].process = 2

\* C16: terminateAll() resolves only after every worker registered at the call has
\* exited or been sent a termination signal; when it resolves the registry is
\* empty; and it always eventually resolves.
C16_TerminateAll ==
    /\ (sup.terminate.pc = "wait") ~> (sup.terminate.pc = "done")
    /\ [](sup.terminate.pc = "done" =>
            \A h \in sup.terminate.targets :
                sup.workers[h].state = "exited" \/ sup.workers[h].killed)
    /\ [][(sup.terminate.pc # "done" /\ sup'.terminate.pc = "done") =>
            \A id \in WorkerIds : sup'.processes[id] = NoWorkerRecord]_vars

\* C16: terminateAll() was called with two workers registered and resolved after
\* one exited and the other was sent SIGTERM by its timer
C16_Witness ==
    /\ sup.terminate.pc = "done"
    /\ sup.terminate.targets = {1, 2}
    /\ sup.workers[1].state = "exited" /\ ~sup.workers[1].killed
    /\ sup.workers[2].state = "running" /\ sup.workers[2].signal = "SIGTERM"

----------------------------------------------------------------------------
(* Claims about the ResponseCleanupRegistry                                  *)

\* The callbacks registered for call id c before the last call on the registry
RegisteredBefore(c) == registry.before[c].list

\* C27: executeCleanupCallbacks(callId) invokes every callback registered for
\* callId exactly once, in registration order, continuing after a callback that
\* throws, and afterwards callId is absent from the registry;
\* removeCleanupCallbacks(callId) makes callId absent without invoking anything;
\* callbacks registered under other call ids are neither invoked nor removed.
C27_ExecuteAndRemove ==
    /\ registry.op = "execute" =>
           /\ registry.ran = [i \in 1..Len(RegisteredBefore(registry.arg)) |-> <<registry.arg, i>>]
           /\ ~registry.map[registry.arg].has
    /\ registry.op = "remove" =>
           /\ registry.ran = <<>>
           /\ ~registry.map[registry.arg].has
    /\ registry.op \in {"execute", "remove"} =>
           \A c \in RegistryIds \ {registry.arg} : registry.map[c] = registry.before[c]

\* executeCleanupCallbacks ran on a call id whose first callback throws and whose
\* second returns, while another call id held a callback
C27_Witness ==
    /\ registry.op = "execute"
    /\ RegisteredBefore(registry.arg) = <<"throws", "returns">>
    /\ \E c \in RegistryIds \ {registry.arg} : registry.map[c].has

----------------------------------------------------------------------------
(* Claims about the worker script                                            *)

\* Number of IPC messages of the given type the worker has sent
SentCount(type) == Cardinality({i \in DOMAIN worker.sent : worker.sent[i] = type})

\* C22: the worker signals {type:'ready'} only after it has booted the HTTP
\* listener and its plugin loader has finished init(); a supervisor that has
\* received 'ready' never observes a worker whose loader is still uninitialized.
C22_ReadyAfterInit ==
    /\ SentCount("ready") > 0 => (worker.bound > 0 /\ worker.init = "done")
    /\ worker.parent.isReady => worker.init = "done"

\* The parent has handled a 'ready' of a listening worker whose loader is initialized
C22_Witness ==
    /\ worker.parent.isReady /\ worker.listening /\ worker.init = "done"

\* C23: after the worker receives {type:'shutdown'} or SIGTERM the
\* shutting-down flag is set, so every HTTP request that arrives afterwards is
\* answered 503 by the rejection middleware and never reaches the dispatcher.
C23_RejectsAfterStop ==
    \A a \in worker.answers : a.afterStop => a.status = "503"

\* A request that arrived after a stop request was answered 503
C23_Witness ==
    \E a \in worker.answers : a.afterStop /\ a.status = "503"

\* C28: {type:'ready'} is sent only after the HTTP server is listening and
\* registerEndpoints() has installed the middleware and the handlers; no
\* 'ready' is sent before a successful bind, and handling a bind error sends none.
C28_ReadyAfterEndpoints ==
    /\ [](/\ SentCount("ready") <= worker.bound
          /\ SentCount("ready") <= worker.endpoints
          /\ worker.bound = worker.endpoints)
    /\ [][SentCount("ready")' > SentCount("ready") =>
              (worker.listening' /\ worker.endpoints' = worker.endpoints + 1
               /\ worker.bindErrors' = worker.bindErrors)]_vars
    /\ [][worker.bindErrors' > worker.bindErrors =>
              SentCount("ready")' = SentCount("ready")]_vars

\* The first bind failed, the fallback found a port, the server is listening
\* on it with its endpoints and 'ready' was sent
C28_Witness ==
    /\ worker.bindErrors = 1 /\ worker.listening /\ worker.endpoints = 1
    /\ worker.sent = <<"ready">>

\* C29: when the requested port is in use and dynamicPort is truthy, the
\* worker probes random ports until one is free and then boots on it exactly
\* once, however many earlier probes failed with address-in-use; without other
\* faults exactly one 'ready' and no 'error' is sent.
C29_BootsOncePerProbe ==
    worker.probeOk > 0 =>
        /\ worker.probeBoots = 1
        /\ worker.faults = 0 => (SentCount("error") = 0 /\ SentCount("ready") <= 1)

\* The first probe found a free port, boot() ran once and 'ready' was sent
C29_Witness ==
    /\ worker.probes = 1 /\ worker.probeOk = 1 /\ worker.probeBoots = 1
    /\ worker.sent = <<"ready">>

\* C24: an uncaught exception in the worker is forwarded to the parent when
\* the channel is connected, and the worker then shuts down: it stops serving
\* and eventually exits, and the supervisor is left without a record of it.
C24_UncaughtShutsDown ==
    (worker.uncaught > 0) ~> (worker.exitCode = "0" /\ ~worker.parent.record)

\* An uncaught exception was forwarded, the parent killed the worker, the
\* worker exited and its record is gone
C24_Witness ==
    /\ worker.uncaught > 0 /\ SentCount("error") > 0
    /\ worker.parent.handlers > 0 /\ ~worker.parent.record
    /\ worker.shuttingDown /\ worker.exitCode = "0"

----------------------------------------------------------------------------
(* Further claims about PluginManager.init() and restart()                   *)

\* C40: init() on a storage root with no plugins directory, or with no plugin
\* file in it, completes without error and leaves the loader initialized, so
\* that isInitialized() is true afterwards.
C40_EmptyInitInitialized ==
    (initPc = "done" /\ PluginFiles(fileState) = {}) => initialized

\* init() returned on a storage root without plugin files
C40_Witness ==
    /\ initPc = "done" /\ initRuns = 1 /\ PluginFiles(fileState) = {}

\* C39: after init() completes, a plugin is in the registry only if every
\* declared dependency of it that is a discovered plugin is in the registry too.
C39_RegisteredHasDependencies ==
    (initPc = "done" /\ initialized) =>
        \A n \in Names : plugins[n] # 0 =>
            \A d \in Range(depsOf[n]) \cap PluginFiles(fileState) : plugins[d] # 0

\* init() completed with B registered after its dependency A
C39_Witness ==
    /\ initPc = "done" /\ initialized
    /\ "A" \in Range(depsOf["B"]) /\ plugins["A"] # 0 /\ plugins["B"] # 0

\* C38: restart() always clears the restarting flag: once restart() has
\* settled, also when its init() threw, isRestarting() is false.
C38_RestartClearsFlag ==
    restartPc = "idle" => ~isRestarting

\* A restart() whose init() completed has settled and cleared the flag
C38_Witness ==
    /\ restartPc = "idle" /\ ~isRestarting /\ initRuns = 2 /\ initPc = "done"
    /\ shutdownCalls # <<>>

----------------------------------------------------------------------------
(* Claims about concurrent commands and restarts in the worker               *)

\* The executeCommand() invocations that are suspended inside the dispatcher
InDispatcher == {c \in DOMAIN cmds : cmds[c].pc # "free"}

\* C31: the dispatcher processes one executeCommand invocation at a time: the
\* allow check and method invocation of a second command never begin while a
\* first command's allow predicate or plugin method is still awaiting.
C31_OneCommandAtATime ==
    Cardinality(InDispatcher) <= 1

\* A command awaits its plugin method after an earlier command has settled
C31_Witness ==
    /\ lastDone.pc = "settled" /\ lastDone.invoked
    /\ \E c \in DOMAIN cmds : cmds[c].pc = "method"

\* Plugin n's registered instance is being shut down by a running restart()
ShuttingDown(n) == restartPc = "shutdown" /\ n \in Range(shutdownCalls)

\* C37: no plugin method is invoked on a plugin instance after restart() has
\* begun shutting that instance down: a command suspended in allow() when
\* restart() started does not go on to invoke its method on the old instance.
C37_NoCallAfterShutdown ==
    [][\A c \in DOMAIN cmds :
          (cmds[c].pc = "allow" /\ cmds'[c].pc = "method") =>
              /\ plugins[cmds[c].cmd.pluginName] = cmds[c].inst
              /\ ~ShuttingDown(cmds[c].cmd.pluginName)]_vars

\* A command that began after a restart() completed invokes its method on the
\* instance the restart registered
C37_Witness ==
    /\ initRuns = 2 /\ restartPc = "idle" /\ ~isRestarting
    /\ cmds[1].pc = "method" /\ cmds[1].inst = 2

----------------------------------------------------------------------------
(* Further claims about delayed responses                                    *)

\* C32: the expiry timer measures inactivity, and a response on which end()
\* has been called never expires: no EXPIRED error is delivered to a listener
\* of a response, of any flavor, after end() was called on it.
C32_NoExpiryAfterEnd ==
    \A j \in 1..Len(resp.log) : resp.log[j].code = ExpiryCode => ~resp.log[j].afterEnd

\* end() was called on a slow response with an onError listener: the timer is
\* cleared and nothing was delivered
C32_Witness ==
    /\ resp.slow /\ EndCalled(resp) /\ resp.nErr > 0
    /\ resp.timer = "null" /\ resp.log = <<>>

\* C33: polling of the external webhook stops. After one poll has returned
\* status 'completed' the registered callback is not invoked again and no new
\* poll is started, and after the owning response reached its terminal state
\* no new poll is started.
C33_PollingStops ==
    /\ cmb.invoked <= 1
    /\ \A i \in DOMAIN cmb.polls : ~cmb.polls[i].afterCompleted /\ ~cmb.polls[i].afterTerminal

\* a poll returned 'completed' to a registered callback, the interval is
\* cleared, and the owner ended afterwards
C33_Witness ==
    /\ cmb.invoked = 1 /\ cmb.completed = 1 /\ cmb.pollingInterval = "cleared"
    /\ cmb.terminal = "end" /\ \A i \in DOMAIN cmb.polls : cmb.polls[i].pc = "done"

\* the interval is cleared by the first 'completed': no poll starts after it
NoPollAfterCompleted == \A i \in DOMAIN cmb.polls : ~cmb.polls[i].afterCompleted

\* overlapping polls may each see 'completed'
CallbackInvokedOnce == cmb.invoked <= 1

----------------------------------------------------------------------------
(* Further claims about the ProcessManager                                   *)

\* C36: a failed fork leaves no record. Once forkProcess has rejected (IPC
\* 'error' message, spawn error, early exit or the 30 s timeout) the registry
\* holds no record made by that fork attempt, whatever the child sends later.
C36_FailedForkLeavesNoRecord ==
    forkPromise.state = "rejected" => processes[ProcessId] = NoRecord

\* the child reported an error during startup, forkProcess rejected, the child
\* was killed and has exited, and the registry is empty
C36_Witness ==
    /\ forkPromise.state = "rejected" /\ forkPromise.reason = "ChildReportedError"
    /\ childProcess.killed /\ childProcess.state = "exited"
    /\ processes[ProcessId] = NoRecord

\* the child behind handle h runs, reported ready and was not sent a signal
LiveReady(S, h) ==
    /\ h \in Handles(S)
    /\ S.workers[h].state = "running" /\ S.workers[h].isReady /\ ~S.workers[h].killed

\* restartProcess() is stopping the child behind handle h
BeingRestarted(S, h) == S.restart.pc \in {"secrets", "wait"} /\ S.restart.old = h

\* C35: the record of a live, ready worker stays in the registry until that
\* same child exits or is terminated: a step that removes the record of an id
\* whose child is live and ready is a step in which that child itself exits or
\* is sent a signal, or one of the restartProcess() that is stopping that
\* child, never only the exit or error of another child of the id.
C35_RecordOutlivesOlderChild ==
    [][\A id \in WorkerIds :
          (/\ sup.processes[id] # NoWorkerRecord
           /\ LiveReady(sup, sup.processes[id].process)
           /\ sup'.processes[id] = NoWorkerRecord)
              => \/ sup'.workers[sup.processes[id].process] # sup.workers[sup.processes[id].process]
                 \/ BeingRestarted(sup, sup.processes[id].process)]_vars

\* two children were forked under w1 and both reported ready; the older one has
\* exited and the record names the newer one, which is live
C35_Witness ==
    /\ Len(sup.workers) = 2 /\ sup.workers[1].id = "w1" /\ sup.workers[2].id = "w1"
    /\ sup.workers[1].isReady /\ sup.workers[1].state = "exited"
    /\ sup.processes["w1"] # NoWorkerRecord /\ sup.processes["w1"].process = 2
    /\ LiveReady(sup, 2)

\* the children of the id that have not exited
RstLive == {h \in DOMAIN rst.children : rst.children[h].state = "running"}

RstInProgress == {c \in RestartCalls : rst.calls[c].pc \in {"wait", "fork"}}

RstSettled == \A c \in RestartCalls : rst.calls[c].pc \in {"resolved", "rejected"}

\* C34: concurrent restarts do not corrupt the registry. Once the overlapping
\* restartProcess(id) calls have all settled there is at most one live child of
\* the id, the registry entry of the id, if any, names that live child, and
\* isRestarting(id) is false; while any call is in progress isRestarting(id)
\* is true.
C34_ConcurrentRestarts ==
    /\ RstSettled =>
          /\ Cardinality(RstLive) <= 1
          /\ rst.processes # 0 => rst.processes \in RstLive
          /\ ~rst.restartingProcesses
    /\ RstInProgress # {} => rst.restartingProcesses

\* two calls that both took the first child as the old one, so that they
\* overlapped, have settled; one new child is live and the record names it
C34_Witness ==
    /\ RstSettled /\ \A c \in RestartCalls : rst.calls[c].old = 1
    /\ rst.calls[1].new # 0 /\ rst.calls[2].new # 0
    /\ Cardinality(RstLive) = 1 /\ rst.processes \in RstLive
    /\ ~rst.restartingProcesses

\* the two parts of the claim, apart
C34_SettledPart ==
    RstSettled =>
        /\ Cardinality(RstLive) <= 1
        /\ rst.processes # 0 => rst.processes \in RstLive

C34_InProgressPart == RstInProgress # {} => rst.restartingProcesses

====
